---- MODULE Spec2Model ----
(***************************************************************************)
(* Model of cmd/protoc-gen-go/internal_gengo/main.go: the Go code          *)
(* generator for resolved protocol buffer files.                           *)
(*                                                                         *)
(* Two specifications are given.                                           *)
(*   SpecField  draws one resolved field descriptor and applies the pure   *)
(*              per-field functions fieldGoType, fieldProtobufTag and      *)
(*              fieldDefaultValue to it.                                   *)
(*   Spec       draws one resolved file and runs GenerateFile on it, one   *)
(*              emitter call per step, appending to the generated file g.  *)
(* Strings are TLA+ strings; a string that the code compares by order      *)
(* (a full name) is a sequence of characters compared by character code.   *)
(***************************************************************************)
EXTENDS Integers, Sequences, FiniteSets, TLC

VARIABLES
    pc,             \* position of the running function
    message,        \* SpecField: the message the drawn field belongs to
    field,          \* SpecField: the drawn field descriptor
    ret,            \* SpecField: the values returned so far
    enum,           \* SpecEmit: the drawn enum
    extension,      \* SpecEmit: the drawn extension
    file,           \* Spec: the resolved file (protogen.File)
    allEnums,       \* Spec: fileInfo.allEnums
    allMessages,    \* Spec: fileInfo.allMessages
    allExtensions,  \* Spec: fileInfo.allExtensions
    idx,            \* Spec: index of the running loop of GenerateFile
    g,              \* Spec: the generated file, a sequence of emitted items
    errs            \* Spec: the errors reported through gen.Error

vars == <<pc, message, field, ret, enum, extension, file, allEnums, allMessages, allExtensions, idx, g, errs>>

fileVars == <<file, allEnums, allMessages, allExtensions, idx, g, errs>>

(***************************************************************************)
(* Small helpers over sequences.                                           *)
(***************************************************************************)
Range(s) == {s[i] : i \in 1..Len(s)}

RECURSIVE Concat(_)
Concat(ss) == IF ss = <<>> THEN <<>> ELSE Head(ss) \o Concat(Tail(ss))

RECURSIVE SeqsUpTo(_, _)
SeqsUpTo(S, n) ==
    IF n = 0 THEN {<<>>}
    ELSE LET shorter == SeqsUpTo(S, n - 1)
         IN  shorter \cup {Append(s, x) : s \in {t \in shorter : Len(t) = n - 1}, x \in S}

(***************************************************************************)
(* Descriptors: protoreflect kinds, cardinalities, syntaxes, values.       *)
(***************************************************************************)
Kinds ==
    {"bool", "enum", "int32", "sint32", "uint32", "int64", "sint64", "uint64",
     "sfixed32", "fixed32", "float", "sfixed64", "fixed64", "double",
     "string", "bytes", "message", "group"}

Cardinalities == {"optional", "required", "repeated"}

Syntaxes == {"proto2", "proto3"}

\* A protoreflect.Value, read through its accessors: Bool(), Int()/Uint()/Enum()
\* (num), String()/Bytes() (str), Float() (fclass, and num when finite).
Value(b, n, s, c) == [bool |-> b, num |-> n, str |-> s, fclass |-> c]

NoValue == Value(FALSE, 0, "", "finite")

IsInf(v, sign) ==
    \/ sign < 0 /\ v.fclass = "neginf"
    \/ sign > 0 /\ v.fclass = "posinf"

IsNaN(v) == v.fclass = "nan"

NoEnum == [GoIdent |-> "", Package |-> "", Values |-> <<>>]

NoMessage == [Name |-> "", GoIdent |-> "", IsMapEntry |-> FALSE, Fields |-> <<>>]

IsMap(f) == f.Kind \in {"message", "group"} /\ f.MessageType.IsMapEntry

(***************************************************************************)
(* The field descriptors SpecField draws from: every combination of kind,  *)
(* cardinality, syntax, packing, JSON name, oneof membership and default   *)
(* that a resolved (validated) schema can hold.                            *)
(***************************************************************************)
MaxFieldNumber == 15

FieldNumbers == {1, MaxFieldNumber}

SignedKinds == {"int32", "sint32", "sfixed32", "int64", "sint64", "sfixed64"}

UnsignedKinds == {"uint32", "fixed32", "uint64", "fixed64"}

FloatKinds == {"float", "double"}

PackableKinds == (Kinds \ {"string", "bytes", "message", "group"})

EnumValue(goIdent, name, number) == [GoIdent |-> goIdent, Name |-> name, Number |-> number]

\* An enum whose first declared value is numbered zero.
EnumColor ==
    [GoIdent |-> "Color", Package |-> "pkg",
     Values |-> <<EnumValue("Color_RED", "RED", 0), EnumValue("Color_GREEN", "GREEN", 1)>>]

\* A proto2 enum whose first declared value is not numbered zero.
EnumMode ==
    [GoIdent |-> "Outer_Mode", Package |-> "pkg",
     Values |-> <<EnumValue("Outer_HIGH", "HIGH", 5), EnumValue("Outer_LOW", "LOW", 0)>>]

MsgInner == [Name |-> "Inner", GoIdent |-> "Outer_Inner", IsMapEntry |-> FALSE, Fields |-> <<>>]

MsgGroup == [Name |-> "G", GoIdent |-> "M_G", IsMapEntry |-> FALSE, Fields |-> <<>>]

MkField(name, number, kind, card, syntax, packed, json, oneof, has, def, en, msg) ==
    [Name |-> name, GoName |-> "F", Number |-> number, Kind |-> kind,
     Cardinality |-> card, Syntax |-> syntax, IsPacked |-> packed,
     JSONName |-> json, OneofType |-> oneof, HasDefault |-> has, Default |-> def,
     EnumType |-> en, MessageType |-> msg]

\* The two synthetic fields of a map-entry message.
MapKeyFields(syntax) ==
    {MkField("key", 1, k, "optional", syntax, FALSE, "key", "", FALSE, NoValue, NoEnum, NoMessage)
        : k \in {"int32", "string"}}

MapValueFields(syntax) ==
    {MkField("value", 2, k, "optional", syntax, FALSE, "value", "", FALSE, NoValue,
             IF k = "enum" THEN EnumColor ELSE NoEnum,
             IF k = "message" THEN MsgInner ELSE NoMessage)
        : k \in {"int32", "bytes", "enum", "message"}}

MapEntries(syntax) ==
    {[Name |-> "TagsEntry", GoIdent |-> "M_TagsEntry", IsMapEntry |-> TRUE, Fields |-> <<k, v>>]
        : k \in MapKeyFields(syntax), v \in MapValueFields(syntax)}

\* The explicit defaults a field of the given kind can declare.
DefaultsOf(kind, en) ==
    CASE kind = "bool" -> {Value(TRUE, 0, "", "finite"), Value(FALSE, 0, "", "finite")}
      [] kind \in SignedKinds -> {Value(FALSE, 0, "", "finite"), Value(FALSE, -7, "", "finite")}
      [] kind \in UnsignedKinds -> {Value(FALSE, 42, "", "finite")}
      [] kind \in FloatKinds ->
            {Value(FALSE, 2, "", "finite"), Value(FALSE, 0, "", "neginf"),
             Value(FALSE, 0, "", "posinf"), Value(FALSE, 0, "", "nan")}
      [] kind \in {"string", "bytes"} ->
            {Value(FALSE, 0, "", "finite"), Value(FALSE, 0, "x", "finite"),
             Value(FALSE, 0, "a,b", "finite")}
      [] kind = "enum" -> {Value(FALSE, en.Values[i].Number, "", "finite") : i \in 1..Len(en.Values)}
      [] OTHER -> {}

DefaultChoices(kind, en) ==
    {[has |-> FALSE, val |-> NoValue]} \cup {[has |-> TRUE, val |-> v] : v \in DefaultsOf(kind, en)}

\* The enum and message types a field of the given kind and syntax can refer to.
TypeChoices(kind, syntax) ==
    CASE kind = "enum" ->
            {[enum |-> e, msg |-> NoMessage]
                : e \in (IF syntax = "proto3" THEN {EnumColor} ELSE {EnumColor, EnumMode})}
      [] kind = "message" -> {[enum |-> NoEnum, msg |-> m] : m \in {MsgInner} \cup MapEntries(syntax)}
      [] kind = "group" -> {[enum |-> NoEnum, msg |-> MsgGroup]}
      [] OTHER -> {[enum |-> NoEnum, msg |-> NoMessage]}

\* What the schema language allows (the resolver validates it before generation).
ValidField(f) ==
    /\ f.Syntax = "proto3" => /\ f.Cardinality # "required"
                              /\ f.Kind # "group"
                              /\ ~f.HasDefault
    /\ f.IsPacked => f.Cardinality = "repeated" /\ f.Kind \in PackableKinds
    /\ f.OneofType # "" => f.Cardinality = "optional"
    /\ f.HasDefault => f.Cardinality # "repeated"
    /\ IsMap(f) => f.Cardinality = "repeated"

FieldsOf(kind, syntax, type) ==
    LET name == IF kind = "group" THEN "g" ELSE "f"
        all  == {MkField(name, n, kind, c, syntax, p, j, o, d.has, d.val, type.enum, type.msg)
                    : n \in FieldNumbers, c \in Cardinalities, p \in BOOLEAN,
                      j \in {"", name, "fJ"}, o \in {"", "kind"},
                      d \in DefaultChoices(kind, type.enum)}
    IN  {f \in all : ValidField(f)}

Fields ==
    UNION {UNION {FieldsOf(k, s, t) : t \in TypeChoices(k, s)} : k \in Kinds, s \in Syntaxes}

Messages == {[GoIdent |-> "M"], [GoIdent |-> "Outer_Inner"]}

(***************************************************************************)
(* Text conversions used by the emitters.                                  *)
(***************************************************************************)
Digit == <<"0", "1", "2", "3", "4", "5", "6", "7", "8", "9">>

RECURSIVE FormatUint(_)
FormatUint(n) ==
    IF n < 10 THEN Digit[n + 1] ELSE FormatUint(n \div 10) \o Digit[(n % 10) + 1]

\* strconv.Itoa: the decimal text of an integer.
Itoa(n) == IF n < 0 THEN "-" \o FormatUint(-n) ELSE FormatUint(n)

\* fmt.Sprint(field.Desc.Default().Interface()): the natural text of a default.
\* A finite float is modelled by an integral value, which prints without a point.
Sprint(kind, v) ==
    CASE kind = "bool" -> (IF v.bool THEN "true" ELSE "false")
      [] kind \in {"string", "bytes"} -> v.str
      [] OTHER -> Itoa(v.num)

\* A tag token is the pair <<prefix, text>>; the token's text in the tag is
\* prefix \o text.
Token(prefix, text) == <<prefix, text>>

TokenString(t) == t[1] \o t[2]

\* strings.Join(tag, ",")
RECURSIVE Join(_, _)
Join(toks, sep) ==
    IF toks = <<>> THEN ""
    ELSE IF Len(toks) = 1 THEN toks[1]
    ELSE toks[1] \o sep \o Join(Tail(toks), sep)

(***************************************************************************)
(* The per-field functions.                                                *)
(***************************************************************************)
wireTypes ==
    [k \in Kinds |->
        CASE k \in {"bool", "enum", "int32", "uint32", "int64", "uint64"} -> "varint"
          [] k = "sint32" -> "zigzag32"
          [] k = "sint64" -> "zigzag64"
          [] k \in {"sfixed32", "fixed32", "float"} -> "fixed32"
          [] k \in {"sfixed64", "fixed64", "double"} -> "fixed64"
          [] k \in {"string", "bytes", "message"} -> "bytes"
          [] k = "group" -> "group"]

enumRegistryName(en) == en.Package \o "." \o en.GoIdent

fieldHasDefault(f) ==
    IF ~f.HasDefault THEN FALSE
    ELSE CASE f.Kind = "string" -> f.Default.str # ""
           [] f.Kind = "bytes" -> f.Default.str # ""
           [] OTHER -> TRUE

RECURSIVE fieldGoType(_)
\* fieldGoType without the final proto3 reset of pointer.
fieldGoType_KeepsProto3Pointer(f) ==
    LET k == f.Kind
        goType ==
            CASE k = "bool" -> "bool"
              [] k = "enum" -> f.EnumType.GoIdent
              [] k \in {"int32", "sint32", "sfixed32"} -> "int32"
              [] k \in {"uint32", "fixed32"} -> "uint32"
              [] k \in {"int64", "sint64", "sfixed64"} -> "int64"
              [] k \in {"uint64", "fixed64"} -> "uint64"
              [] k = "float" -> "float32"
              [] k = "double" -> "float64"
              [] k = "string" -> "string"
              [] k = "bytes" -> "[]byte"
              [] k \in {"message", "group"} -> "*" \o f.MessageType.GoIdent
    IN  IF IsMap(f)
        THEN [goType |-> "map[" \o fieldGoType(f.MessageType.Fields[1]).goType \o "]"
                            \o fieldGoType(f.MessageType.Fields[2]).goType,
              pointer |-> FALSE]
        ELSE [goType |-> IF f.Cardinality = "repeated" THEN "[]" \o goType ELSE goType,
              pointer |-> /\ k \notin {"bytes", "message", "group"}
                          /\ f.Cardinality # "repeated"]

\* fieldGoType without the early return for map fields: a map field is then
\* typed like any repeated message field.
fieldGoType_MapAsRepeated(f) ==
    LET k == f.Kind
        goType ==
            CASE k = "bool" -> "bool"
              [] k = "enum" -> f.EnumType.GoIdent
              [] k \in {"int32", "sint32", "sfixed32"} -> "int32"
              [] k \in {"uint32", "fixed32"} -> "uint32"
              [] k \in {"int64", "sint64", "sfixed64"} -> "int64"
              [] k \in {"uint64", "fixed64"} -> "uint64"
              [] k = "float" -> "float32"
              [] k = "double" -> "float64"
              [] k = "string" -> "string"
              [] k = "bytes" -> "[]byte"
              [] k \in {"message", "group"} -> "*" \o f.MessageType.GoIdent
    IN  [goType |-> IF f.Cardinality = "repeated" THEN "[]" \o goType ELSE goType,
         pointer |-> /\ k \notin {"bytes", "message", "group"}
                     /\ f.Cardinality # "repeated"
                     /\ f.Syntax # "proto3"]

fieldGoType(f) ==
    LET k == f.Kind
        base ==
            CASE k = "bool" -> [goType |-> "bool", pointer |-> TRUE]
              [] k = "enum" -> [goType |-> f.EnumType.GoIdent, pointer |-> TRUE]
              [] k \in {"int32", "sint32", "sfixed32"} -> [goType |-> "int32", pointer |-> TRUE]
              [] k \in {"uint32", "fixed32"} -> [goType |-> "uint32", pointer |-> TRUE]
              [] k \in {"int64", "sint64", "sfixed64"} -> [goType |-> "int64", pointer |-> TRUE]
              [] k \in {"uint64", "fixed64"} -> [goType |-> "uint64", pointer |-> TRUE]
              [] k = "float" -> [goType |-> "float32", pointer |-> TRUE]
              [] k = "double" -> [goType |-> "float64", pointer |-> TRUE]
              [] k = "string" -> [goType |-> "string", pointer |-> TRUE]
              [] k = "bytes" -> [goType |-> "[]byte", pointer |-> FALSE]
              [] k \in {"message", "group"} ->
                    [goType |-> "*" \o f.MessageType.GoIdent, pointer |-> FALSE]
        rep == IF f.Cardinality = "repeated"
               THEN [goType |-> "[]" \o base.goType, pointer |-> FALSE]
               ELSE base
    IN  IF k \in {"message", "group"} /\ IsMap(f)
        THEN [goType |-> "map[" \o fieldGoType(f.MessageType.Fields[1]).goType \o "]"
                            \o fieldGoType(f.MessageType.Fields[2]).goType,
              pointer |-> FALSE]
        ELSE [goType |-> rep.goType,
              pointer |-> IF f.Syntax = "proto3" THEN FALSE ELSE rep.pointer]

\* The text after "def=" in the tag.
tagDefault(f) ==
    CASE f.Kind = "bool" -> (IF f.Default.bool THEN "1" ELSE "0")
      [] f.Kind = "bytes" -> f.Default.str
      [] f.Kind \in FloatKinds ->
            (CASE IsInf(f.Default, -1) -> "-inf"
               [] IsInf(f.Default, 1) -> "inf"
               [] IsNaN(f.Default) -> "nan"
               [] OTHER -> Sprint(f.Kind, f.Default))
      [] OTHER -> Sprint(f.Kind, f.Default)

\* fieldProtobufTagTokens with the default appended before the oneof marker.
fieldProtobufTagTokens_DefBeforeOneof(f) ==
    LET name == IF f.Kind = "group" THEN f.MessageType.Name ELSE f.Name
    IN  <<Token("", wireTypes[f.Kind]), Token("", Itoa(f.Number))>>
        \o (CASE f.Cardinality = "optional" -> <<Token("", "opt")>>
              [] f.Cardinality = "required" -> <<Token("", "req")>>
              [] f.Cardinality = "repeated" -> <<Token("", "rep")>>)
        \o (IF f.IsPacked THEN <<Token("", "packed")>> ELSE <<>>)
        \o <<Token("name=", name)>>
        \o (IF f.JSONName # "" /\ f.JSONName # name THEN <<Token("json=", f.JSONName)>> ELSE <<>>)
        \o (IF f.Syntax = "proto3" THEN <<Token("", "proto3")>> ELSE <<>>)
        \o (IF f.Kind = "enum" THEN <<Token("enum=", enumRegistryName(f.EnumType))>> ELSE <<>>)
        \o (IF f.HasDefault THEN <<Token("def=", tagDefault(f))>> ELSE <<>>)
        \o (IF f.OneofType # "" THEN <<Token("", "oneof")>> ELSE <<>>)

\* fieldProtobufTagTokens emitting the default only when fieldHasDefault holds.
fieldProtobufTagTokens_DefIfHasDefault(f) ==
    LET name == IF f.Kind = "group" THEN f.MessageType.Name ELSE f.Name
    IN  <<Token("", wireTypes[f.Kind]), Token("", Itoa(f.Number))>>
        \o (CASE f.Cardinality = "optional" -> <<Token("", "opt")>>
              [] f.Cardinality = "required" -> <<Token("", "req")>>
              [] f.Cardinality = "repeated" -> <<Token("", "rep")>>)
        \o (IF f.IsPacked THEN <<Token("", "packed")>> ELSE <<>>)
        \o <<Token("name=", name)>>
        \o (IF f.JSONName # "" /\ f.JSONName # name THEN <<Token("json=", f.JSONName)>> ELSE <<>>)
        \o (IF f.Syntax = "proto3" THEN <<Token("", "proto3")>> ELSE <<>>)
        \o (IF f.Kind = "enum" THEN <<Token("enum=", enumRegistryName(f.EnumType))>> ELSE <<>>)
        \o (IF f.OneofType # "" THEN <<Token("", "oneof")>> ELSE <<>>)
        \o (IF fieldHasDefault(f) THEN <<Token("def=", tagDefault(f))>> ELSE <<>>)

\* The tokens fieldProtobufTag appends to tag, in the order it appends them.
fieldProtobufTagTokens(f) ==
    LET name == IF f.Kind = "group" THEN f.MessageType.Name ELSE f.Name
    IN  <<Token("", wireTypes[f.Kind]), Token("", Itoa(f.Number))>>
        \o (CASE f.Cardinality = "optional" -> <<Token("", "opt")>>
              [] f.Cardinality = "required" -> <<Token("", "req")>>
              [] f.Cardinality = "repeated" -> <<Token("", "rep")>>)
        \o (IF f.IsPacked THEN <<Token("", "packed")>> ELSE <<>>)
        \o <<Token("name=", name)>>
        \o (IF f.JSONName # "" /\ f.JSONName # name THEN <<Token("json=", f.JSONName)>> ELSE <<>>)
        \o (IF f.Syntax = "proto3" THEN <<Token("", "proto3")>> ELSE <<>>)
        \o (IF f.Kind = "enum" THEN <<Token("enum=", enumRegistryName(f.EnumType))>> ELSE <<>>)
        \o (IF f.OneofType # "" THEN <<Token("", "oneof")>> ELSE <<>>)
        \o (IF f.HasDefault THEN <<Token("def=", tagDefault(f))>> ELSE <<>>)

fieldProtobufTag(f) ==
    LET toks == fieldProtobufTagTokens(f)
    IN  Join([i \in 1..Len(toks) |-> TokenString(toks[i])], ",")

\* fieldDefaultValue returning the numeric zero for an enum and the holder
\* itself for bytes.
fieldDefaultValue_ZeroEnumAliasBytes(m, f) ==
    IF f.Cardinality = "repeated" THEN "nil"
    ELSE IF fieldHasDefault(f)
    THEN "Default_" \o m.GoIdent \o "_" \o f.GoName
    ELSE CASE f.Kind = "bool" -> "false"
           [] f.Kind = "string" -> "\"\""
           [] f.Kind \in {"message", "group", "bytes"} -> "nil"
           [] OTHER -> "0"

fieldDefaultValue(m, f) ==
    IF f.Cardinality = "repeated" THEN "nil"
    ELSE IF fieldHasDefault(f)
    THEN LET defVarName == "Default_" \o m.GoIdent \o "_" \o f.GoName
         IN  IF f.Kind = "bytes"
             THEN "append([]byte(nil), " \o defVarName \o "...)"
             ELSE defVarName
    ELSE CASE f.Kind = "bool" -> "false"
           [] f.Kind = "string" -> "\"\""
           [] f.Kind \in {"message", "group", "bytes"} -> "nil"
           [] f.Kind = "enum" -> f.EnumType.Values[1].GoIdent
           [] OTHER -> "0"

(***************************************************************************)
(* Full names.  A protoreflect.FullName is compared by byte order when the *)
(* map types are sorted, so it is kept as a sequence of characters.        *)
(***************************************************************************)
\* The characters of identifiers and full names, in ASCII order.
Alphabet ==
    <<".", "0", "1", "2", "3", "4", "5", "6", "7", "8", "9",
      "A", "B", "C", "D", "E", "F", "G", "H", "I", "J", "K", "L", "M",
      "N", "O", "P", "Q", "R", "S", "T", "U", "V", "W", "X", "Y", "Z", "_",
      "a", "b", "c", "d", "e", "f", "g", "h", "i", "j", "k", "l", "m",
      "n", "o", "p", "q", "r", "s", "t", "u", "v", "w", "x", "y", "z">>

CharCode(c) == CHOOSE i \in 1..Len(Alphabet) : Alphabet[i] = c

\* Go's < on strings: byte-wise lexicographic order.
RECURSIVE StringLess(_, _)
StringLess(a, b) ==
    IF b = <<>> THEN FALSE
    ELSE IF a = <<>> THEN TRUE
    ELSE IF Head(a) # Head(b) THEN CharCode(Head(a)) < CharCode(Head(b))
    ELSE StringLess(Tail(a), Tail(b))

\* string(name): the characters as one string.
String(name) == Join(name, "")

LastDot(name) ==
    IF \E i \in 1..Len(name) : name[i] = "."
    THEN CHOOSE i \in 1..Len(name) : name[i] = "." /\ \A j \in (i + 1)..Len(name) : name[j] # "."
    ELSE 0

\* protoreflect.FullName.Parent: the name without its last component.
Parent(name) == IF LastDot(name) = 0 THEN <<>> ELSE SubSeq(name, 1, LastDot(name) - 1)

\* protoreflect.FullName.Name: the last component.
BaseName(name) == SubSeq(name, LastDot(name) + 1, Len(name))

MessageSetExtensionName ==
    <<"m", "e", "s", "s", "a", "g", "e", "_", "s", "e", "t", "_",
      "e", "x", "t", "e", "n", "s", "i", "o", "n">>

\* strconv.Quote of a text without characters that need escaping.
Quote(s) == "\"" \o s \o "\""

(***************************************************************************)
(* The generated file g is the sequence of the items the emitters print,   *)
(* one item per printed declaration, table entry or call.                  *)
(***************************************************************************)
Item(kind, name, type, text, extra, num, flag) ==
    [kind |-> kind, name |-> name, type |-> type, text |-> text, extra |-> extra,
     num |-> num, flag |-> flag]

ItemsOfKind(items, kind) == SelectSeq(items, LAMBDA it : it.kind = kind)

(***************************************************************************)
(* genEnum                                                                 *)
(***************************************************************************)
\* The entries of the <Enum>_name table: the loop over enum.Values that
\* keeps the set of the numbers already generated.
\* nameMapEntries remembering only the number of the value before.
RECURSIVE nameMapEntries_ForgetsEarlier(_, _)
nameMapEntries_ForgetsEarlier(values, generated) ==
    IF values = <<>> THEN <<>>
    ELSE LET value == Head(values)
             duplicate == value.Number \in generated
         IN  <<Item("name_entry", value.Name, "", IF duplicate THEN "// Duplicate value: " ELSE "",
                    "", value.Number, duplicate)>>
             \o nameMapEntries_ForgetsEarlier(Tail(values), {value.Number})

RECURSIVE nameMapEntries(_, _)
nameMapEntries(values, generated) ==
    IF values = <<>> THEN <<>>
    ELSE LET value == Head(values)
             duplicate == value.Number \in generated
         IN  <<Item("name_entry", value.Name, "", IF duplicate THEN "// Duplicate value: " ELSE "",
                    "", value.Number, duplicate)>>
             \o nameMapEntries(Tail(values), generated \cup {value.Number})

valueMapEntries(values) ==
    [i \in 1..Len(values) |-> Item("value_entry", values[i].Name, "", "", "", values[i].Number, FALSE)]

genEnum(en) ==
    <<Item("enum", en.GoIdent, "int32", "", "", 0, FALSE)>>
    \o [i \in 1..Len(en.Values) |->
            Item("enum_const", en.Values[i].GoIdent, en.GoIdent, "", "", en.Values[i].Number, FALSE)]
    \o <<Item("var", en.GoIdent \o "_name", "map[int32]string", "", "", 0, FALSE)>>
    \o nameMapEntries(en.Values, {})
    \o <<Item("var", en.GoIdent \o "_value", "map[string]int32", "", "", 0, FALSE)>>
    \o valueMapEntries(en.Values)
    \o (IF en.Syntax # "proto3" THEN <<Item("func", "Enum", en.GoIdent, "", "", 0, FALSE)>> ELSE <<>>)
    \o <<Item("func", "String", en.GoIdent, "", "", 0, FALSE)>>
    \o (IF en.Syntax # "proto3"
        THEN <<Item("func", "UnmarshalJSON", en.GoIdent, "", "", 0, FALSE)>> ELSE <<>>)
    \o <<Item("func", "EnumDescriptor", en.GoIdent, "", "", 0, FALSE)>>

(***************************************************************************)
(* genExtension                                                            *)
(***************************************************************************)
\* isExtensionMessageSetElement without the test that the extension is nested.
isExtensionMessageSetElement_IgnoresParent(ext) ==
    /\ ext.ExtendedType.MessageSetWireFormat
    /\ BaseName(ext.FullName) = MessageSetExtensionName

isExtensionMessageSetElement(ext) ==
    /\ ext.ParentMessage # ""
    /\ ext.ExtendedType.MessageSetWireFormat
    /\ BaseName(ext.FullName) = MessageSetExtensionName

extensionVar(ext) ==
    "E_" \o (IF ext.ParentMessage # "" THEN ext.ParentMessage \o "_" ELSE "")
         \o ext.GoName

\* The type printed for a field: "*" in front of it when fieldGoType says pointer.
pointerGoType(f) ==
    LET t == fieldGoType(f) IN IF t.pointer THEN "*" \o t.goType ELSE t.goType

genExtension(path, ext) ==
    LET name == IF isExtensionMessageSetElement(ext)
                THEN Parent(ext.FullName)
                ELSE ext.FullName
    IN  <<Item("extension", extensionVar(ext), "ExtensionDesc", "", "", 0, FALSE),
          Item("ExtendedType", extensionVar(ext), ext.ExtendedType.GoIdent, "", "", 0, FALSE),
          Item("ExtensionType", extensionVar(ext), pointerGoType(ext), "", "", 0, FALSE),
          Item("Field", extensionVar(ext), "", "", "", ext.Number, FALSE),
          Item("Name", extensionVar(ext), "", Quote(String(name)), "", 0, FALSE),
          Item("Tag", extensionVar(ext), "", Quote(fieldProtobufTag(ext)), "", 0, FALSE),
          Item("Filename", extensionVar(ext), "", Quote(path), "", 0, FALSE)>>

(***************************************************************************)
(* genMessage                                                              *)
(***************************************************************************)
fieldJSONTag(f) == f.Name \o ",omitempty"

\* field.OneofType: the oneof of the message that the field names.
OneofOf(m, f) == CHOOSE o \in Range(m.Oneofs) : o.Name = f.OneofType

\* field == field.OneofType.Fields[0]
IsFirstOfOneof(m, f) == f.OneofType # "" /\ OneofOf(m, f).Fields[1] = f.Name

\* The name of the wrapper type of a oneof member.
fieldOneofType(m, f) == m.GoIdent \o "_" \o f.GoName

\* The struct member of a oneof: one interface-typed member per oneof.
genOneofField(m, oneof) ==
    <<Item("oneof_field", oneof.GoName, "is" \o m.GoIdent \o "_" \o oneof.GoName, "", "", 0, FALSE)>>

\* The interface of a oneof and one wrapper type per member field.
genOneofTypes(m, oneof) ==
    <<Item("oneof_interface", "is" \o m.GoIdent \o "_" \o oneof.GoName, "", "", "", 0, FALSE)>>
    \o [i \in 1..Len(oneof.Fields) |->
            LET f == CHOOSE x \in Range(m.Fields) : x.Name = oneof.Fields[i]
            IN  Item("oneof_wrapper", fieldOneofType(m, f), fieldGoType(f).goType, "", "", 0, FALSE)]

\* The selector accessor of each oneof of the message.
genOneofFuncs(m) ==
    [i \in 1..Len(m.Oneofs) |->
        Item("oneof_getter", "Get" \o m.Oneofs[i].GoName,
             "is" \o m.GoIdent \o "_" \o m.Oneofs[i].GoName, "", "", 0, FALSE)]

\* structField printing the oneof's member at each of the oneof's fields.
structField_EveryOneofMember(m, f) ==
    IF f.OneofType # ""
    THEN genOneofField(m, OneofOf(m, f))
    ELSE LET tags == <<"protobuf:" \o Quote(fieldProtobufTag(f)),
                       "json:" \o Quote(fieldJSONTag(f))>>
                     \o (IF IsMap(f)
                         THEN <<"protobuf_key:" \o Quote(fieldProtobufTag(f.MessageType.Fields[1])),
                                "protobuf_val:" \o Quote(fieldProtobufTag(f.MessageType.Fields[2]))>>
                         ELSE <<>>)
         IN  <<Item("field", f.GoName, pointerGoType(f), Join(tags, " "), "", f.Number, FALSE)>>

\* One struct member: a oneof member at the oneof's first field, nothing at
\* its other fields, and a tagged member for every other field.
structField(m, f) ==
    IF f.OneofType # ""
    THEN (IF IsFirstOfOneof(m, f) THEN genOneofField(m, OneofOf(m, f)) ELSE <<>>)
    ELSE LET tags == <<"protobuf:" \o Quote(fieldProtobufTag(f)),
                       "json:" \o Quote(fieldJSONTag(f))>>
                     \o (IF IsMap(f)
                         THEN <<"protobuf_key:" \o Quote(fieldProtobufTag(f.MessageType.Fields[1])),
                                "protobuf_val:" \o Quote(fieldProtobufTag(f.MessageType.Fields[2]))>>
                         ELSE <<>>)
         IN  <<Item("field", f.GoName, pointerGoType(f), Join(tags, " "), "", f.Number, FALSE)>>

\* The members printed after the fields of the schema.
structTail(m) ==
    <<Item("xxx", "XXX_NoUnkeyedLiteral", "struct{}", "json:\"-\"", "", 0, FALSE)>>
    \o (IF Len(m.ExtensionRanges) > 0
        THEN <<Item("xxx", "XXX_InternalExtensions", "proto.XXX_InternalExtensions",
                    Join((IF m.MessageSetWireFormat THEN <<"protobuf_messageset:\"1\"">> ELSE <<>>)
                         \o <<"json:\"-\"">>, " "), "", 0, FALSE)>>
        ELSE <<>>)
    \o <<Item("xxx", "XXX_unrecognized", "[]byte", "json:\"-\"", "", 0, FALSE),
         Item("xxx", "XXX_sizecache", "int32", "json:\"-\"", "", 0, FALSE)>>

\* Reset, String, ProtoMessage, Descriptor, the extension range table and the
\* table-driven hooks.
messageMethods(m) ==
    <<Item("func", "Reset", m.GoIdent, "", "", 0, FALSE),
      Item("func", "String", m.GoIdent, "", "", 0, FALSE),
      Item("func", "ProtoMessage", m.GoIdent, "", "", 0, FALSE),
      Item("func", "Descriptor", m.GoIdent, "", "", 0, FALSE)>>
    \o (IF Len(m.ExtensionRanges) > 0
        THEN (IF m.MessageSetWireFormat
              THEN <<Item("func", "MarshalJSON", m.GoIdent, "", "", 0, FALSE),
                     Item("func", "UnmarshalJSON", m.GoIdent, "", "", 0, FALSE)>>
              ELSE <<>>)
             \o <<Item("var", "extRange_" \o m.GoIdent, "[]proto.ExtensionRange", "", "", 0, FALSE)>>
             \o [i \in 1..Len(m.ExtensionRanges) |->
                    Item("ext_range", "extRange_" \o m.GoIdent, "", "", "",
                         m.ExtensionRanges[i][1], FALSE)]
             \o <<Item("func", "ExtensionRangeArray", m.GoIdent, "", "", 0, FALSE)>>
        ELSE <<>>)
    \o <<Item("func", "XXX_Unmarshal", m.GoIdent, "", "", 0, FALSE),
         Item("func", "XXX_Marshal", m.GoIdent, "", "", 0, FALSE),
         Item("func", "XXX_Merge", m.GoIdent, "", "", 0, FALSE),
         Item("func", "XXX_Size", m.GoIdent, "", "", 0, FALSE),
         Item("func", "XXX_DiscardUnknown", m.GoIdent, "", "", 0, FALSE),
         Item("var", "xxx_messageInfo_" \o m.GoIdent, "proto.InternalMessageInfo", "", "", 0, FALSE)>>

\* funcCall that never converts the result.
funcCall_NeverConverts(goType, fn, param) == "math." \o fn \o param

\* funcCall: a call into package math, converted to float32 for a float field.
funcCall(goType, fn, param) ==
    LET call == "math." \o fn \o param
    IN  IF goType # "float64" THEN goType \o "(" \o call \o ")" ELSE call

\* enum.Values[enum.Desc.Values().ByNumber(n).Index()]: the first declared
\* value with that number.
EnumValueByNumber(en, n) ==
    en.Values[CHOOSE i \in 1..Len(en.Values) :
                    /\ en.Values[i].Number = n
                    /\ \A j \in 1..(i - 1) : en.Values[j].Number # n]

\* The constant or variable holding the default of one field; the item's
\* extra says which of the two ("const" or "var"), its text is the initialiser.
defaultHolder(m, f) ==
    LET defVarName == "Default_" \o m.GoIdent \o "_" \o f.GoName
        def == f.Default
    IN  CASE f.Kind = "string" ->
                <<Item("default", defVarName, "string", Quote(def.str), "const", 0, FALSE)>>
          [] f.Kind = "bytes" ->
                <<Item("default", defVarName, "[]byte", "[]byte(" \o Quote(def.str) \o ")", "var", 0, FALSE)>>
          [] f.Kind = "enum" ->
                <<Item("default", defVarName, f.EnumType.GoIdent,
                       EnumValueByNumber(f.EnumType, def.num).GoIdent, "const", 0, FALSE)>>
          [] f.Kind \in FloatKinds ->
                LET goType == IF f.Kind = "float" THEN "float32" ELSE "float64"
                IN  CASE IsInf(def, -1) ->
                            <<Item("default", defVarName, goType, funcCall(goType, "Inf", "(-1)"), "var", 0, FALSE)>>
                      [] IsInf(def, 1) ->
                            <<Item("default", defVarName, goType, funcCall(goType, "Inf", "(1)"), "var", 0, FALSE)>>
                      [] IsNaN(def) ->
                            <<Item("default", defVarName, goType, funcCall(goType, "NaN", "()"), "var", 0, FALSE)>>
                      [] OTHER ->
                            <<Item("default", defVarName, goType, Sprint(f.Kind, def), "const", 0, FALSE)>>
          [] OTHER ->
                <<Item("default", defVarName, fieldGoType(f).goType, Sprint(f.Kind, def), "const", 0, FALSE)>>

\* defaultHolders skipping only the fields that declare no default at all.
defaultHolders_EveryExplicitDefault(m) ==
    Concat([i \in 1..Len(m.Fields) |->
                IF ~m.Fields[i].HasDefault THEN <<>> ELSE defaultHolder(m, m.Fields[i])])

\* The loop printing the default holders: fields without default are skipped.
defaultHolders(m) ==
    Concat([i \in 1..Len(m.Fields) |->
                IF ~fieldHasDefault(m.Fields[i]) THEN <<>> ELSE defaultHolder(m, m.Fields[i])])

\* getter whose guard never tests the field itself.
getter_ReceiverGuardOnly(m, f) ==
    LET t == fieldGoType(f)
        defaultValue == fieldDefaultValue(m, f)
        guard == IF f.OneofType # "" THEN "x, ok := m.Get" \o OneofOf(m, f).GoName \o "(); ok"
                 ELSE "m != nil"
    IN  (IF IsFirstOfOneof(m, f) THEN genOneofTypes(m, OneofOf(m, f)) ELSE <<>>)
        \o <<Item("getter", "Get" \o f.GoName, t.goType, guard, defaultValue, 0,
                  f.OneofType = "" /\ t.pointer)>>

\* The getter of one field, after the wrapper types of the oneof it opens.
\* The item's text is the guard, its extra the value returned when unset, and
\* its flag tells whether the stored field is dereferenced.
getter(m, f) ==
    LET t == fieldGoType(f)
        defaultValue == fieldDefaultValue(m, f)
        guard == IF f.OneofType # "" THEN "x, ok := m.Get" \o OneofOf(m, f).GoName \o "(); ok"
                 ELSE IF f.Syntax = "proto3" \/ defaultValue = "nil" THEN "m != nil"
                 ELSE "m != nil && m." \o f.GoName \o " != nil"
    IN  (IF IsFirstOfOneof(m, f) THEN genOneofTypes(m, OneofOf(m, f)) ELSE <<>>)
        \o <<Item("getter", "Get" \o f.GoName, t.goType, guard, defaultValue, 0,
                  f.OneofType = "" /\ t.pointer)>>

\* genMessage without the early return for map entries.
genMessage_EmitsMapEntries(path, m) ==
    <<Item("struct", m.GoIdent, "", "", "", 0, FALSE)>>
    \o Concat([i \in 1..Len(m.Fields) |-> structField(m, m.Fields[i])])
    \o structTail(m)
    \o messageMethods(m)
    \o defaultHolders(m)
    \o Concat([i \in 1..Len(m.Fields) |-> getter(m, m.Fields[i])])
    \o (IF Len(m.Oneofs) > 0 THEN genOneofFuncs(m) ELSE <<>>)
    \o Concat([i \in 1..Len(m.Extensions) |-> genExtension(path, m.Extensions[i])])

genMessage(path, m) ==
    IF m.IsMapEntry THEN <<>>
    ELSE <<Item("struct", m.GoIdent, "", "", "", 0, FALSE)>>
         \o Concat([i \in 1..Len(m.Fields) |-> structField(m, m.Fields[i])])
         \o structTail(m)
         \o messageMethods(m)
         \o defaultHolders(m)
         \o Concat([i \in 1..Len(m.Fields) |-> getter(m, m.Fields[i])])
         \o (IF Len(m.Oneofs) > 0 THEN genOneofFuncs(m) ELSE <<>>)
         \o Concat([i \in 1..Len(m.Extensions) |-> genExtension(path, m.Extensions[i])])

(***************************************************************************)
(* genInitFunction and genRegisterExtension                                *)
(***************************************************************************)
genRegisterExtension(ext) ==
    <<Item("RegisterExtension", extensionVar(ext), "", "", "", 0, FALSE)>>
    \o (IF isExtensionMessageSetElement(ext)
        THEN <<Item("RegisterMessageSetType", extensionVar(ext), pointerGoType(ext),
                    Quote(String(Parent(ext.FullName))), "", ext.Number, FALSE)>>
        ELSE <<>>)

\* sort.Slice(mapFields, less) with less comparing the full names of the map
\* entry types: an insertion of each field before the first one that follows it.
RECURSIVE insertMapField(_, _)
insertMapField(sorted, f) ==
    IF sorted = <<>> THEN <<f>>
    ELSE IF StringLess(f.MessageType.FullName, Head(sorted).MessageType.FullName)
    THEN <<f>> \o sorted
    ELSE <<Head(sorted)>> \o insertMapField(Tail(sorted), f)

RECURSIVE sortMapFields(_)
sortMapFields(fields) ==
    IF fields = <<>> THEN <<>>
    ELSE insertMapField(sortMapFields(SubSeq(fields, 1, Len(fields) - 1)), fields[Len(fields)])

\* registerMessage registering the map types in the order of the fields.
registerMessage_UnsortedMapTypes(m) ==
    IF m.IsMapEntry THEN <<>>
    ELSE LET mapFields == SelectSeq(m.Fields, IsMap)
         IN  Concat([i \in 1..Len(m.Extensions) |-> genRegisterExtension(m.Extensions[i])])
             \o <<Item("RegisterType", m.GoIdent, "", Quote(String(m.FullName)), "", 0, FALSE)>>
             \o [i \in 1..Len(mapFields) |->
                    Item("RegisterMapType", mapFields[i].GoName, fieldGoType(mapFields[i]).goType,
                         Quote(String(mapFields[i].MessageType.FullName)), "", 0, FALSE)]

\* The registrations of one message of allMessages.
registerMessage(m) ==
    IF m.IsMapEntry THEN <<>>
    ELSE LET mapFields == sortMapFields(SelectSeq(m.Fields, IsMap))
         IN  Concat([i \in 1..Len(m.Extensions) |-> genRegisterExtension(m.Extensions[i])])
             \o <<Item("RegisterType", m.GoIdent, "", Quote(String(m.FullName)), "", 0, FALSE)>>
             \o [i \in 1..Len(mapFields) |->
                    Item("RegisterMapType", mapFields[i].GoName, fieldGoType(mapFields[i]).goType,
                         Quote(String(mapFields[i].MessageType.FullName)), "", 0, FALSE)]

genInitFunction(enums, messages, extensions, fileExtensions) ==
    IF Len(messages) = 0 /\ Len(enums) = 0 /\ Len(extensions) = 0 THEN <<>>
    ELSE <<Item("init", "", "", "", "", 0, FALSE)>>
         \o [i \in 1..Len(enums) |->
                Item("RegisterEnum", enums[i].GoIdent, "", Quote(enumRegistryName(enums[i])), "", 0, FALSE)]
         \o Concat([i \in 1..Len(messages) |-> registerMessage(messages[i])])
         \o Concat([i \in 1..Len(fileExtensions) |-> genRegisterExtension(fileExtensions[i])])
         \o <<Item("init_end", "", "", "", "", 0, FALSE)>>

(***************************************************************************)
(* walkMessages, genImport, genFileDescriptor                              *)
(***************************************************************************)
\* The messages in the order walkMessages calls f on them: each message,
\* then its descendants, then its next sibling.
\* walkMessages visiting the siblings of a message before its descendants.
RECURSIVE walkMessages_SiblingsFirst(_)
walkMessages_SiblingsFirst(messages) ==
    IF messages = <<>> THEN <<>>
    ELSE <<Head(messages)>> \o walkMessages_SiblingsFirst(Tail(messages))
         \o walkMessages_SiblingsFirst(Head(messages).Messages)

RECURSIVE walkMessages(_)
walkMessages(messages) ==
    IF messages = <<>> THEN <<>>
    ELSE <<Head(messages)>> \o walkMessages(Head(messages).Messages) \o walkMessages(Tail(messages))

genImport(goImportPath, imp) ==
    IF ~imp.Known THEN <<>>
    ELSE IF imp.GoImportPath = goImportPath THEN <<>>
    ELSE <<Item("import", imp.GoImportPath, "", "", "", 0, FALSE)>>
         \o (IF ~imp.IsPublic THEN <<>>
             ELSE LET msgs  == walkMessages(imp.Messages)
                      enums == imp.Enums \o Concat([i \in 1..Len(msgs) |-> msgs[i].Enums])
                      oneofFields(m) == SelectSeq(m.Fields, LAMBDA f : f.OneofType # "")
                  IN  Concat([i \in 1..Len(msgs) |->
                          <<Item("alias", msgs[i].GoIdent, imp.GoImportPath \o "." \o msgs[i].GoIdent,
                                 "", "", 0, FALSE)>>
                          \o [j \in 1..Len(oneofFields(msgs[i])) |->
                                Item("alias", fieldOneofType(msgs[i], oneofFields(msgs[i])[j]),
                                     imp.GoImportPath \o "." \o fieldOneofType(msgs[i], oneofFields(msgs[i])[j]),
                                     "", "", 0, FALSE)]])
                      \o Concat([i \in 1..Len(enums) |->
                          <<Item("alias", enums[i].GoIdent, imp.GoImportPath \o "." \o enums[i].GoIdent,
                                 "", "", 0, FALSE),
                            Item("var", enums[i].GoIdent \o "_name", "", "", "", 0, FALSE),
                            Item("var", enums[i].GoIdent \o "_value", "", "", "", 0, FALSE)>>
                          \o [j \in 1..Len(enums[i].Values) |->
                                Item("alias_const", enums[i].Values[j].GoIdent, enums[i].GoIdent,
                                     "", "", 0, FALSE)]]))

\* genFileDescriptor going on to print the block after Marshal failed.
genFileDescriptor_PrintsAfterError(path, descriptorVar, marshalOk) ==
    <<Item("RegisterFile", descriptorVar, "", Quote(path), "", 0, FALSE),
      Item("var", descriptorVar, "[]byte", "", "", 0, FALSE)>>

\* The block embedding the gzipped descriptor; nothing when Marshal failed.
genFileDescriptor(path, descriptorVar, marshalOk) ==
    IF ~marshalOk THEN <<>>
    ELSE <<Item("RegisterFile", descriptorVar, "", Quote(path), "", 0, FALSE),
           Item("var", descriptorVar, "[]byte", "", "", 0, FALSE)>>

(***************************************************************************)
(* SpecField: one field is drawn and the per-field functions are applied   *)
(* to it, in any order, each once.                                         *)
(***************************************************************************)
NoExtension == [GoName |-> "", ParentMessage |-> ""]

NoRet == [done |-> {}, goType |-> "", pointer |-> FALSE, tokens |-> <<>>, tag |-> "",
          defaultValue |-> ""]

NoFile == [Path |-> "", Enums |-> <<>>, Messages |-> <<>>, Extensions |-> <<>>]

FileIdle ==
    /\ file = NoFile
    /\ allEnums = <<>>
    /\ allMessages = <<>>
    /\ allExtensions = <<>>
    /\ idx = 0
    /\ g = <<>>
    /\ errs = <<>>

FieldInit ==
    /\ pc = "field"
    /\ message \in Messages
    /\ field \in Fields
    /\ ret = NoRet
    /\ enum = NoEnum
    /\ extension = NoExtension
    /\ FileIdle

CallFieldGoType ==
    /\ pc = "field"
    /\ "fieldGoType" \notin ret.done
    /\ LET r == fieldGoType(field)
       IN  ret' = [ret EXCEPT !.done = @ \cup {"fieldGoType"},
                              !.goType = r.goType, !.pointer = r.pointer]
    /\ UNCHANGED <<pc, message, field, enum, extension, fileVars>>

CallFieldProtobufTag ==
    /\ pc = "field"
    /\ "fieldProtobufTag" \notin ret.done
    /\ ret' = [ret EXCEPT !.done = @ \cup {"fieldProtobufTag"},
                          !.tokens = fieldProtobufTagTokens(field),
                          !.tag = fieldProtobufTag(field)]
    /\ UNCHANGED <<pc, message, field, enum, extension, fileVars>>

CallFieldDefaultValue ==
    /\ pc = "field"
    /\ "fieldDefaultValue" \notin ret.done
    /\ ret' = [ret EXCEPT !.done = @ \cup {"fieldDefaultValue"},
                          !.defaultValue = fieldDefaultValue(message, field)]
    /\ UNCHANGED <<pc, message, field, enum, extension, fileVars>>

FieldNext == CallFieldGoType \/ CallFieldProtobufTag \/ CallFieldDefaultValue

SpecField == FieldInit /\ [][FieldNext]_vars

(***************************************************************************)
(* SpecEmit: one enum, one message or one extension is drawn and its       *)
(* emitter is applied to it; g holds what the emitter printed.             *)
(***************************************************************************)
MaxEnumValues == 3

MaxEnumNumber == 1

MaxFields == 2

\* The enums drawn: up to MaxEnumValues values named V1, V2, ... and numbered
\* freely, so that numbers repeat; a proto3 enum starts at zero.
EmitEnumValues ==
    UNION {{[i \in 1..n |-> EnumValue("Color_V" \o Itoa(i), "V" \o Itoa(i), nums[i])]
                : nums \in [1..n -> 0..MaxEnumNumber]}
            : n \in 1..MaxEnumValues}

EmitEnums ==
    {e \in {[GoIdent |-> "Color", Package |-> "pkg", Syntax |-> s, Values |-> vs]
                : s \in Syntaxes, vs \in EmitEnumValues}
        : e.Syntax = "proto3" => e.Values[1].Number = 0}

\* An extension: a field with its full name, the message it is declared in
\* ("" when declared at file level) and the message it extends.
ExtensionOf(f, fullName, goName, parent, extended) ==
    [Name |-> String(BaseName(fullName)), GoName |-> goName, FullName |-> fullName,
     ParentMessage |-> parent, ExtendedType |-> extended] @@ f

ExtensionShapes ==
    {MkField("x", 100, "message", "optional", "proto2", FALSE, "x", "", FALSE, NoValue, NoEnum, MsgInner),
     MkField("x", 100, "int32", "optional", "proto2", FALSE, "x", "", TRUE,
             Value(FALSE, -7, "", "finite"), NoEnum, NoMessage),
     MkField("x", 101, "string", "repeated", "proto2", FALSE, "x", "", FALSE, NoValue, NoEnum, NoMessage),
     MkField("x", 101, "bytes", "optional", "proto2", FALSE, "x", "", FALSE, NoValue, NoEnum, NoMessage)}

ExtendedTypes ==
    {[GoIdent |-> "MessageSet", MessageSetWireFormat |-> TRUE,
      FullName |-> <<"p", ".", "M", "e", "s", "s", "a", "g", "e", "S", "e", "t">>],
     [GoIdent |-> "Base", MessageSetWireFormat |-> FALSE,
      FullName |-> <<"p", ".", "B", "a", "s", "e">>]}

\* The extensions declared in message parent ("" for the file) of package p.
ExtensionsIn(parent) ==
    {ExtensionOf(f, <<"p", ".">> \o (IF parent = "" THEN <<>> ELSE <<"O", "u", "t", "e", "r", ".">>) \o n,
                 IF n = MessageSetExtensionName THEN "MessageSetExtension" ELSE "Ext",
                 parent, t)
        : f \in ExtensionShapes, n \in {MessageSetExtensionName, <<"e", "x", "t">>}, t \in ExtendedTypes}

EmitExtensions == ExtensionsIn("") \cup ExtensionsIn("Outer")

\* The i-th field of a message: named and numbered by its position.
Positioned(f, i) ==
    [f EXCEPT !.Name = IF f.Kind = "group" THEN "g" \o Itoa(i) ELSE "f" \o Itoa(i),
              !.GoName = "F" \o Itoa(i),
              !.JSONName = IF f.Kind = "group" THEN "g" \o Itoa(i) ELSE "f" \o Itoa(i),
              !.Number = i]

Plain(kind, card, syntax) ==
    MkField("f", 1, kind, card, syntax, FALSE, "f", "", FALSE, NoValue, NoEnum, NoMessage)

WithDefault(kind, def) ==
    MkField("f", 1, kind, "optional", "proto2", FALSE, "f", "", TRUE, def, NoEnum, NoMessage)

InOneof(f, oneof) == [f EXCEPT !.OneofType = oneof]

OfType(f, enumType, messageType) == [f EXCEPT !.EnumType = enumType, !.MessageType = messageType]

FloatDefaults ==
    {Value(FALSE, 2, "", "finite"), Value(FALSE, 0, "", "neginf"),
     Value(FALSE, 0, "", "posinf"), Value(FALSE, 0, "", "nan")}

\* The fields a drawn proto2 message is made of.
Proto2FieldPool ==
    {Plain("int32", "optional", "proto2"),
     Plain("bytes", "optional", "proto2"),
     Plain("int32", "repeated", "proto2"),
     Plain("string", "required", "proto2"),
     WithDefault("int32", Value(FALSE, -7, "", "finite")),
     WithDefault("bool", Value(TRUE, 0, "", "finite")),
     WithDefault("string", Value(FALSE, 0, "", "finite")),
     WithDefault("string", Value(FALSE, 0, "x", "finite")),
     WithDefault("bytes", Value(FALSE, 0, "", "finite")),
     WithDefault("bytes", Value(FALSE, 0, "x", "finite")),
     OfType(Plain("enum", "optional", "proto2"), EnumMode, NoMessage),
     OfType(WithDefault("enum", Value(FALSE, 0, "", "finite")), EnumMode, NoMessage),
     OfType(Plain("message", "optional", "proto2"), NoEnum, MsgInner),
     OfType(Plain("group", "optional", "proto2"), NoEnum, MsgGroup),
     OfType(Plain("message", "repeated", "proto2"), NoEnum,
            CHOOSE e \in MapEntries("proto2") :
                e.Fields[1].Kind = "string" /\ e.Fields[2].Kind = "int32"),
     InOneof(Plain("int32", "optional", "proto2"), "kind"),
     InOneof(WithDefault("string", Value(FALSE, 0, "x", "finite")), "kind"),
     InOneof(OfType(Plain("message", "optional", "proto2"), NoEnum, MsgInner), "kind"),
     InOneof(Plain("bool", "optional", "proto2"), "alt")}
    \cup {WithDefault(k, d) : k \in FloatKinds, d \in FloatDefaults}

\* The fields a drawn proto3 message is made of.
Proto3FieldPool ==
    {Plain("int32", "optional", "proto3"),
     Plain("string", "optional", "proto3"),
     Plain("bytes", "optional", "proto3"),
     Plain("double", "repeated", "proto3"),
     OfType(Plain("enum", "optional", "proto3"), EnumColor, NoMessage),
     OfType(Plain("message", "optional", "proto3"), NoEnum, MsgInner),
     OfType(Plain("message", "repeated", "proto3"), NoEnum,
            CHOOSE e \in MapEntries("proto3") :
                e.Fields[1].Kind = "int32" /\ e.Fields[2].Kind = "message"),
     InOneof(Plain("int32", "optional", "proto3"), "kind"),
     InOneof(OfType(Plain("message", "optional", "proto3"), NoEnum, MsgInner), "kind")}

\* The oneofs of a field list: each oneof named by a field, with its member
\* fields in declaration order.
OneofsOf(fields) ==
    LET members(o) == SelectSeq(fields, LAMBDA f : f.OneofType = o)
        oneof(o) == [Name |-> o, GoName |-> IF o = "kind" THEN "Kind" ELSE "Alt",
                     Fields |-> [i \in 1..Len(members(o)) |-> members(o)[i].Name]]
        opens == SelectSeq([i \in 1..Len(fields) |-> [at |-> i, name |-> fields[i].OneofType]],
                           LAMBDA x : /\ x.name # ""
                                      /\ \A j \in 1..(x.at - 1) : fields[j].OneofType # x.name)
    IN  [i \in 1..Len(opens) |-> oneof(opens[i].name)]

\* What a message declares besides its fields: nothing, or an extension range
\* under the message-set wire format and a nested extension.
MessageExtras ==
    {[ExtensionRanges |-> <<>>, MessageSetWireFormat |-> FALSE, Extensions |-> <<>>],
     [ExtensionRanges |-> <<<<4, 2147483647>>>>, MessageSetWireFormat |-> TRUE,
      Extensions |-> <<CHOOSE e \in ExtensionsIn("Outer") :
                          /\ e.Kind = "message"
                          /\ e.ExtendedType.MessageSetWireFormat
                          /\ BaseName(e.FullName) = MessageSetExtensionName>>]}

MkMessage(name, goIdent, fullName, isMapEntry, fields, extras, enums, messages) ==
    [Name |-> name, GoIdent |-> goIdent, FullName |-> fullName, IsMapEntry |-> isMapEntry,
     MessageSetWireFormat |-> extras.MessageSetWireFormat,
     ExtensionRanges |-> extras.ExtensionRanges,
     Fields |-> fields, Oneofs |-> OneofsOf(fields),
     Enums |-> enums, Messages |-> messages, Extensions |-> extras.Extensions]

EmitMessages ==
    {MkMessage("Outer", "Outer", <<"p", ".", "O", "u", "t", "e", "r">>, FALSE,
               [i \in 1..Len(fs) |-> Positioned(fs[i], i)], x, <<>>, <<>>)
        : fs \in SeqsUpTo(Proto2FieldPool, MaxFields) \cup SeqsUpTo(Proto3FieldPool, MaxFields),
          x \in MessageExtras}

FilePath == "a.proto"

EmitInit ==
    /\ \/ /\ pc = "genEnum"
          /\ enum \in EmitEnums
          /\ message = [GoIdent |-> ""]
          /\ extension = NoExtension
       \/ /\ pc = "genMessage"
          /\ enum = NoEnum
          /\ message \in EmitMessages
          /\ extension = NoExtension
       \/ /\ pc = "genExtension"
          /\ enum = NoEnum
          /\ message = [GoIdent |-> ""]
          /\ extension \in EmitExtensions
    /\ field = [Name |-> ""]
    /\ ret = NoRet
    /\ FileIdle

CallGenEnum ==
    /\ pc = "genEnum"
    /\ g' = genEnum(enum)
    /\ pc' = "done"
    /\ UNCHANGED <<message, field, ret, enum, extension, file, allEnums, allMessages,
                   allExtensions, idx, errs>>

CallGenMessage ==
    /\ pc = "genMessage"
    /\ g' = genMessage(FilePath, message)
    /\ pc' = "done"
    /\ UNCHANGED <<message, field, ret, enum, extension, file, allEnums, allMessages,
                   allExtensions, idx, errs>>

CallGenExtension ==
    /\ pc = "genExtension"
    /\ g' = genExtension(FilePath, extension)
    /\ pc' = "done"
    /\ UNCHANGED <<message, field, ret, enum, extension, file, allEnums, allMessages,
                   allExtensions, idx, errs>>

EmitNext == CallGenEnum \/ CallGenMessage \/ CallGenExtension

SpecEmit == EmitInit /\ [][EmitNext]_vars

(***************************************************************************)
(* Spec: GenerateFile on one resolved file, one emitter call per step.     *)
(***************************************************************************)
\* The most messages a drawn file declares, nested ones included.
MaxMessages == 4

NoExtras == [ExtensionRanges |-> <<>>, MessageSetWireFormat |-> FALSE, Extensions |-> <<>>]

SimpleEnum(goIdent) ==
    [GoIdent |-> goIdent, Package |-> "p", Syntax |-> "proto2",
     Values |-> <<EnumValue(goIdent \o "_A", "A", 0)>>]

\* The messages nested in a top-level message: a plain message declaring an
\* enum and a message-set extension, and two map entries whose names sort
\* against their order of declaration when B is declared before A.
NestedKinds == {"Inner", "BEntry", "AEntry"}

NestedChars(kind) ==
    CASE kind = "Inner" -> <<"I", "n", "n", "e", "r">>
      [] kind = "BEntry" -> <<"B", "E", "n", "t", "r", "y">>
      [] kind = "AEntry" -> <<"A", "E", "n", "t", "r", "y">>

NestedMessage(parentGoIdent, parentFullName, kind) ==
    LET goIdent  == parentGoIdent \o "_" \o kind
        fullName == parentFullName \o <<".">> \o NestedChars(kind)
    IN  IF kind = "Inner"
        THEN MkMessage(kind, goIdent, fullName, FALSE, <<>>,
                       [NoExtras EXCEPT !.Extensions =
                            <<ExtensionOf(CHOOSE f \in ExtensionShapes : f.Kind = "message",
                                          fullName \o <<".">> \o MessageSetExtensionName,
                                          "MessageSetExtension", goIdent,
                                          CHOOSE t \in ExtendedTypes : t.MessageSetWireFormat)>>],
                       <<SimpleEnum(goIdent \o "_E")>>, <<>>)
        ELSE MkMessage(kind, goIdent, fullName, TRUE,
                       <<CHOOSE k \in MapKeyFields("proto2") : k.Kind = "string",
                         CHOOSE v \in MapValueFields("proto2") : v.Kind = "int32">>,
                       NoExtras, <<>>, <<>>)

\* The i-th top-level message: it declares one enum, the nested messages of
\* the given kinds, and one map field per nested map entry, in their order.
TopMessage(i, kinds) ==
    LET goIdent  == "M" \o Itoa(i)
        fullName == <<"p", ".", "M", Itoa(i)>>
        nested   == [j \in 1..Len(kinds) |-> NestedMessage(goIdent, fullName, kinds[j])]
        entries  == SelectSeq(nested, LAMBDA m : m.IsMapEntry)
        fields   == [j \in 1..Len(entries) |->
                        Positioned(OfType(Plain("message", "repeated", "proto2"), NoEnum, entries[j]), j)]
    IN  MkMessage(goIdent, goIdent, fullName, FALSE, fields, NoExtras,
                  <<SimpleEnum(goIdent \o "_E")>>, nested)

\* The nested messages of one top-level message: kinds in any order, none twice.
NestedSeqs ==
    {ks \in SeqsUpTo(NestedKinds, Cardinality(NestedKinds)) :
        \A i, j \in 1..Len(ks) : i # j => ks[i] # ks[j]}

RECURSIVE CountMessages(_)
CountMessages(tops) ==
    IF tops = <<>> THEN 0 ELSE 1 + Len(Head(tops)) + CountMessages(Tail(tops))

\* The message trees of at most n messages, each top-level message given by
\* the kinds of the messages nested in it.
RECURSIVE Trees(_)
Trees(n) ==
    IF n = 0 THEN {<<>>}
    ELSE Trees(n - 1)
         \cup {Append(t, ks) : t \in Trees(n - 1), ks \in {k \in NestedSeqs : Len(k) < n}}

FileExtension ==
    ExtensionOf(CHOOSE f \in ExtensionShapes : f.Kind = "int32", <<"p", ".", "e", "x", "t">>,
                "Ext", "", CHOOSE t \in ExtendedTypes : ~t.MessageSetWireFormat)

\* An imported file: one message with a oneof member and one enum.
ImportedFile(known, public) ==
    [Path |-> "dep.proto", Known |-> known, GoImportPath |-> "dep", IsPublic |-> public,
     Enums |-> <<SimpleEnum("DepEnum")>>,
     Messages |-> <<MkMessage("Dep", "Dep", <<"d", ".", "D", "e", "p">>, FALSE,
                              <<Positioned(InOneof(Plain("int32", "optional", "proto2"), "kind"), 1)>>,
                              NoExtras, <<>>, <<>>)>>]

\* What a file declares at its top level besides messages.
FileDecls ==
    {[Enums |-> <<>>, Extensions |-> <<>>, Imports |-> <<>>],
     [Enums |-> <<SimpleEnum("Top")>>, Extensions |-> <<FileExtension>>,
      Imports |-> <<ImportedFile(TRUE, FALSE)>>],
     [Enums |-> <<SimpleEnum("Top")>>, Extensions |-> <<>>, Imports |-> <<ImportedFile(TRUE, TRUE)>>],
     [Enums |-> <<>>, Extensions |-> <<FileExtension>>, Imports |-> <<ImportedFile(FALSE, FALSE)>>]}

\* ProtoMarshals tells whether proto.Marshal accepts the file's descriptor.
Files ==
    {[Path |-> FilePath, GoImportPath |-> "a", Imports |-> d.Imports, Enums |-> d.Enums,
      Messages |-> [i \in 1..Len(tops) |-> TopMessage(i, tops[i])], Extensions |-> d.Extensions,
      ProtoMarshals |-> ok]
        : d \in FileDecls, tops \in {t \in Trees(MaxMessages) : CountMessages(t) <= MaxMessages},
          ok \in BOOLEAN}

\* fileDescriptor_<hash of the file's path>
descriptorVar(f) == "fileDescriptor_" \o "sha256(" \o f.Path \o ")"

\* GenerateFile running the loop over the extensions before the one over the messages.
Phases_ExtensionsBeforeMessages ==
    <<"imports", "enums", "extensions", "messages", "init", "descriptor", "done">>

Phases == <<"imports", "enums", "messages", "extensions", "init", "descriptor", "done">>

\* The next call GenerateFile makes from position (phase, i): a loop whose
\* range is exhausted is left for the statement after it.
RECURSIVE Settle(_, _, _)
Settle(phase, i, lens) ==
    IF phase \in DOMAIN lens /\ i > lens[phase]
    THEN Settle(Phases[1 + CHOOSE k \in 1..Len(Phases) : Phases[k] = phase], 1, lens)
    ELSE <<phase, i>>

LoopLens(f, enums, messages) ==
    [imports |-> Len(f.Imports), enums |-> Len(enums), messages |-> Len(messages),
     extensions |-> Len(f.Extensions)]

Goto(phase, i, enums, messages) ==
    LET to == Settle(phase, i, LoopLens(file, enums, messages))
    IN  pc' = to[1] /\ idx' = to[2]

Init ==
    /\ pc = "GenerateFile"
    /\ file \in Files
    /\ allEnums = <<>>
    /\ allMessages = <<>>
    /\ allExtensions = <<>>
    /\ idx = 0
    /\ g = <<>>
    /\ errs = <<>>
    /\ message = [GoIdent |-> ""]
    /\ field = [Name |-> ""]
    /\ ret = NoRet
    /\ enum = NoEnum
    /\ extension = NoExtension

\* GenerateFile up to its first loop: the flat lists and the file header.
Walk ==
    /\ pc = "GenerateFile"
    /\ LET msgs == walkMessages(file.Messages)
       IN  /\ allMessages' = msgs
           /\ allEnums' = file.Enums \o Concat([i \in 1..Len(msgs) |-> msgs[i].Enums])
           /\ allExtensions' = Concat([i \in 1..Len(msgs) |-> msgs[i].Extensions]) \o file.Extensions
    /\ g' = <<Item("header", file.Path, "", "", "", 0, FALSE),
              Item("package", file.GoImportPath, "", "", "", 0, FALSE)>>
    /\ Goto("imports", 1, allEnums', allMessages')
    /\ UNCHANGED <<message, field, ret, enum, extension, file, errs>>

GenImport ==
    /\ pc = "imports"
    /\ g' = g \o genImport(file.GoImportPath, file.Imports[idx])
    /\ Goto("imports", idx + 1, allEnums, allMessages)
    /\ UNCHANGED <<message, field, ret, enum, extension, file, allEnums, allMessages,
                   allExtensions, errs>>

GenEnum ==
    /\ pc = "enums"
    /\ g' = g \o genEnum(allEnums[idx])
    /\ Goto("enums", idx + 1, allEnums, allMessages)
    /\ UNCHANGED <<message, field, ret, enum, extension, file, allEnums, allMessages,
                   allExtensions, errs>>

GenMessage ==
    /\ pc = "messages"
    /\ g' = g \o genMessage(file.Path, allMessages[idx])
    /\ Goto("messages", idx + 1, allEnums, allMessages)
    /\ UNCHANGED <<message, field, ret, enum, extension, file, allEnums, allMessages,
                   allExtensions, errs>>

GenExtension ==
    /\ pc = "extensions"
    /\ g' = g \o genExtension(file.Path, file.Extensions[idx])
    /\ Goto("extensions", idx + 1, allEnums, allMessages)
    /\ UNCHANGED <<message, field, ret, enum, extension, file, allEnums, allMessages,
                   allExtensions, errs>>

GenInitFunction ==
    /\ pc = "init"
    /\ g' = g \o genInitFunction(allEnums, allMessages, allExtensions, file.Extensions)
    /\ pc' = "descriptor"
    /\ UNCHANGED <<message, field, ret, enum, extension, file, allEnums, allMessages,
                   allExtensions, idx, errs>>

\* proto.Marshal of the file's descriptor succeeds or fails; gen.Error
\* appends its error to errs.
GenFileDescriptor ==
    /\ pc = "descriptor"
    /\ LET marshalOk == file.ProtoMarshals
       IN  /\ g' = g \o genFileDescriptor(file.Path, descriptorVar(file), marshalOk)
           /\ errs' = IF marshalOk THEN errs ELSE Append(errs, "proto.Marshal")
    /\ pc' = "done"
    /\ UNCHANGED <<message, field, ret, enum, extension, file, allEnums, allMessages,
                   allExtensions, idx>>

Next ==
    \/ Walk
    \/ GenImport
    \/ GenEnum
    \/ GenMessage
    \/ GenExtension
    \/ GenInitFunction
    \/ GenFileDescriptor

Spec == Init /\ [][Next]_vars

(***************************************************************************)
(* Claims about the per-field functions (checked under SpecField).         *)
(***************************************************************************)
WireTypeTokens == {"varint", "zigzag32", "zigzag64", "fixed32", "fixed64", "bytes", "group"}

\* The position (1..10) of a token in the tag grammar: wire type, number,
\* cardinality, packed, name=, json=, proto3, enum=, oneof, def=.
TokenClass(t) ==
    CASE t[1] = "name=" -> 5
      [] t[1] = "json=" -> 6
      [] t[1] = "enum=" -> 8
      [] t[1] = "def=" -> 10
      [] t[1] = "" /\ t[2] = "packed" -> 4
      [] t[1] = "" /\ t[2] = "proto3" -> 7
      [] t[1] = "" /\ t[2] = "oneof" -> 9
      [] t[1] = "" /\ t[2] \in {"opt", "req", "rep"} -> 3
      [] t[1] = "" /\ t[2] \in WireTypeTokens -> 1
      [] OTHER -> 2

HasDefToken(toks) == \E i \in 1..Len(toks) : toks[i][1] = "def="

\* The default-has-value rule: an explicit default AND (kind is not
\* string/bytes OR the default is non-empty).
NonTrivialDefault(f) ==
    f.HasDefault /\ (f.Kind \notin {"string", "bytes"} \/ f.Default.str # "")

\* C1: the tag is the comma-join of tokens in the order wire type, number,
\* cardinality, [packed], name=, [json=], [proto3], [enum=], [oneof], [def=];
\* the first three and name= are always there, and nothing follows a def=.
C1_TagTokenOrder ==
    "fieldProtobufTag" \in ret.done =>
        LET toks == ret.tokens
            cls  == [i \in 1..Len(toks) |-> TokenClass(toks[i])]
        IN  /\ Len(toks) >= 4
            /\ cls[1] = 1 /\ toks[1][2] \in WireTypeTokens
            /\ cls[2] = 2 /\ toks[2][2] = Itoa(field.Number)
            /\ cls[3] = 3
            /\ \E i \in 1..Len(toks) : cls[i] = 5
            /\ \A i, j \in 1..Len(toks) : i < j => cls[i] < cls[j]
            /\ \A i \in 1..Len(toks) : cls[i] = 10 => i = Len(toks)
            /\ ret.tag = Join([i \in 1..Len(toks) |-> toks[i][1] \o toks[i][2]], ",")

\* A tag carrying every token that can occur together in one proto2 tag:
\* wire type, number, cardinality, name=, json=, enum=, oneof, def=.
C1_Witness ==
    /\ "fieldProtobufTag" \in ret.done
    /\ Len(ret.tokens) = 8
    /\ ret.tag = "varint,15,opt,name=f,json=fJ,enum=pkg.Outer_Mode,oneof,def=5"

\* C2 (as claimed): a def= token is emitted only if the field has a
\* non-trivial default; a string or bytes field with an explicit empty
\* default gets no def= token.
C2_DefOnlyIfNonTrivial ==
    "fieldProtobufTag" \in ret.done =>
        (HasDefToken(ret.tokens) => NonTrivialDefault(field))

\* C2 (amended): a def= token is emitted exactly when the field declares an
\* explicit default, trivial or not; a string or bytes field with an explicit
\* empty default gets the token "def=" with nothing after it.
C2_DefIffExplicitDefault ==
    "fieldProtobufTag" \in ret.done =>
        /\ HasDefToken(ret.tokens) <=> field.HasDefault
        /\ (field.HasDefault /\ field.Kind \in {"string", "bytes"} /\ field.Default.str = "")
              => ret.tokens[Len(ret.tokens)] = <<"def=", "">>

C2_Witness ==
    /\ "fieldProtobufTag" \in ret.done
    /\ field.Kind = "string"
    /\ field.HasDefault
    /\ field.Default.str = ""
    /\ ret.tag = "bytes,1,opt,name=f,def="

\* C3: fieldGoType returns pointer = true if and only if the syntax is not
\* proto3, the cardinality is not repeated and the kind is none of bytes,
\* message, group.
C3_PointerIff ==
    "fieldGoType" \in ret.done =>
        (ret.pointer <=> /\ field.Syntax # "proto3"
                         /\ field.Cardinality # "repeated"
                         /\ field.Kind \notin {"bytes", "message", "group"})

C3_Witness ==
    /\ "fieldGoType" \in ret.done
    /\ ret.pointer
    /\ field.Kind = "enum"
    /\ field.Cardinality = "required"

\* C4: for a map field fieldGoType returns pointer = false and the type
\* map[K]V, K and V being the types fieldGoType returns for the map entry's
\* first and second field; the type is not wrapped in a slice.
C4_MapType ==
    ("fieldGoType" \in ret.done /\ IsMap(field)) =>
        LET keyType == fieldGoType(field.MessageType.Fields[1]).goType
            valType == fieldGoType(field.MessageType.Fields[2]).goType
        IN  /\ ~ret.pointer
            /\ ret.goType = "map[" \o keyType \o "]" \o valType
            /\ keyType \in {"int32", "string"}
            /\ valType \in {"int32", "[]byte", "Color", "*Outer_Inner"}

C4_Witness ==
    /\ "fieldGoType" \in ret.done
    /\ IsMap(field)
    /\ field.Cardinality = "repeated"
    /\ ret.goType = "map[string]*Outer_Inner"

\* C9: the value a getter returns for an unset field is nil for a repeated
\* field; else the Default_<Message>_<Field> holder when the default is
\* non-trivial (for bytes a fresh copy of it); else false for bool, "" for
\* string, nil for message, group and bytes, the enum's first declared value
\* for enum, and 0 for the other numeric kinds.
C9_UnsetValue ==
    "fieldDefaultValue" \in ret.done =>
        LET holder == "Default_" \o message.GoIdent \o "_" \o field.GoName
        IN  ret.defaultValue =
                IF field.Cardinality = "repeated" THEN "nil"
                ELSE IF NonTrivialDefault(field)
                THEN (IF field.Kind = "bytes"
                      THEN "append([]byte(nil), " \o holder \o "...)"
                      ELSE holder)
                ELSE CASE field.Kind = "bool" -> "false"
                       [] field.Kind = "string" -> "\"\""
                       [] field.Kind \in {"message", "group", "bytes"} -> "nil"
                       [] field.Kind = "enum" -> field.EnumType.Values[1].GoIdent
                       [] OTHER -> "0"

\* An enum field without default whose enum's first declared value is 5.
C9_Witness ==
    /\ "fieldDefaultValue" \in ret.done
    /\ field.Kind = "enum"
    /\ ~field.HasDefault
    /\ field.Cardinality = "optional"
    /\ field.EnumType.Values[1].Number = 5
    /\ ret.defaultValue = "Outer_HIGH"

(***************************************************************************)
(* Claims about the emitters (checked under SpecEmit).                     *)
(***************************************************************************)
EnumEmitted == pc = "done" /\ enum.GoIdent # ""

MessageEmitted == pc = "done" /\ message.GoIdent # "" /\ ~message.IsMapEntry

ExtensionEmitted == pc = "done" /\ extension.GoName # ""

\* C6: the number-to-name table has one entry per declared value, in
\* declaration order, flagged as duplicate if and only if an earlier declared
\* value has the same number (so each number has exactly one unflagged entry,
\* its first declared value); the name-to-number table has exactly one
\* unflagged entry per declared value, mapping its name to its number.
C6_EnumTables ==
    EnumEmitted =>
        LET V      == enum.Values
            names  == ItemsOfKind(g, "name_entry")
            values == ItemsOfKind(g, "value_entry")
        IN  /\ Len(names) = Len(V)
            /\ \A i \in 1..Len(V) :
                    /\ names[i].name = V[i].Name
                    /\ names[i].num = V[i].Number
                    /\ names[i].flag <=> \E j \in 1..(i - 1) : V[j].Number = V[i].Number
                    /\ names[i].flag <=> names[i].text = "// Duplicate value: "
            /\ \A n \in {V[i].Number : i \in 1..Len(V)} :
                    LET live == {i \in 1..Len(names) : names[i].num = n /\ ~names[i].flag}
                    IN  /\ Cardinality(live) = 1
                        /\ \A i \in live : \A j \in 1..(i - 1) : V[j].Number # n
            /\ Len(values) = Len(V)
            /\ \A i \in 1..Len(V) :
                    /\ values[i].name = V[i].Name
                    /\ values[i].num = V[i].Number
                    /\ ~values[i].flag

\* An enum V1 = 1, V2 = 0, V3 = 1: the third value repeats the first one's number.
C6_Witness ==
    /\ EnumEmitted
    /\ Len(enum.Values) = 3
    /\ enum.Values[1].Number = 1 /\ enum.Values[2].Number = 0 /\ enum.Values[3].Number = 1
    /\ LET names == ItemsOfKind(g, "name_entry")
       IN  ~names[1].flag /\ ~names[2].flag /\ names[3].flag

HolderName(m, f) == "Default_" \o m.GoIdent \o "_" \o f.GoName

\* C7: a default holder Default_<Message>_<Field> is emitted for exactly the
\* fields with a non-trivial default, one per such field and none for any
\* other; a string or bytes field with an explicit empty default gets none.
C7_HoldersIffNonTrivial ==
    MessageEmitted =>
        LET F == message.Fields
            holders == ItemsOfKind(g, "default")
            with == {i \in 1..Len(F) : NonTrivialDefault(F[i])}
        IN  /\ Len(holders) = Cardinality(with)
            /\ \A i \in 1..Len(F) :
                    Cardinality({h \in 1..Len(holders) : holders[h].name = HolderName(message, F[i])})
                        = IF i \in with THEN 1 ELSE 0
            /\ \A i \in 1..Len(F) :
                    (F[i].HasDefault /\ F[i].Kind \in {"string", "bytes"} /\ F[i].Default.str = "")
                        => \A h \in 1..Len(holders) : holders[h].name # HolderName(message, F[i])

\* A message whose first field is a string with default "" and whose second
\* field is a string with default "x": one holder, for the second field.
C7_Witness ==
    /\ MessageEmitted
    /\ Len(message.Fields) = 2
    /\ message.Fields[1].Kind = "string" /\ message.Fields[1].HasDefault
    /\ message.Fields[1].Default.str = ""
    /\ message.Fields[2].Kind = "string" /\ message.Fields[2].Default.str = "x"
    /\ LET holders == ItemsOfKind(g, "default")
       IN  Len(holders) = 1 /\ holders[1].name = "Default_Outer_F2"

\* C8: the holder of a float or double default that is -Inf, +Inf or NaN is
\* a variable initialised by math.Inf(-1), math.Inf(1) or math.NaN(), never a
\* literal; the call is wrapped in float32(...) exactly when the kind is
\* float. Every other float or double default is a literal constant.
C8_FloatHolders ==
    MessageEmitted =>
        \A i \in 1..Len(message.Fields) :
            LET f == message.Fields[i]
                holders == SelectSeq(g, LAMBDA it : it.kind = "default" /\ it.name = HolderName(message, f))
                call == CASE f.Default.fclass = "neginf" -> "math.Inf(-1)"
                          [] f.Default.fclass = "posinf" -> "math.Inf(1)"
                          [] f.Default.fclass = "nan" -> "math.NaN()"
                          [] OTHER -> ""
            IN  (f.Kind \in {"float", "double"} /\ f.HasDefault) =>
                    /\ Len(holders) = 1
                    /\ f.Default.fclass \in {"neginf", "posinf", "nan"} =>
                            /\ holders[1].extra = "var"
                            /\ f.Kind = "float" => holders[1].text = "float32(" \o call \o ")"
                            /\ f.Kind = "double" => holders[1].text = call
                    /\ f.Default.fclass = "finite" =>
                            /\ holders[1].extra = "const"
                            /\ holders[1].text = Itoa(f.Default.num)

\* A float field with default -Inf next to a double field with default NaN.
C8_Witness ==
    /\ MessageEmitted
    /\ Len(message.Fields) = 2
    /\ message.Fields[1].Kind = "float" /\ message.Fields[1].Default.fclass = "neginf"
    /\ message.Fields[2].Kind = "double" /\ message.Fields[2].Default.fclass = "nan"
    /\ LET holders == ItemsOfKind(g, "default")
       IN  /\ holders[1].text = "float32(math.Inf(-1))" /\ holders[1].type = "float32"
           /\ holders[2].text = "math.NaN()" /\ holders[2].type = "float64"

EmittedName == ItemsOfKind(g, "Name")[1].text

\* C10 (as claimed): the Name of an extension's descriptor is the
\* extension's full name, except for a field named message_set_extension
\* extending a message with message-set wire format, whose Name is the
\* extended message's own name.
C10_NameIsExtendedMessage ==
    ExtensionEmitted =>
        EmittedName =
            IF /\ BaseName(extension.FullName) = MessageSetExtensionName
               /\ extension.ExtendedType.MessageSetWireFormat
            THEN Quote(String(extension.ExtendedType.FullName))
            ELSE Quote(String(extension.FullName))

\* C10 (amended): the Name of an extension's descriptor is the extension's
\* full name, except for an extension declared inside a message, named
\* message_set_extension and extending a message with message-set wire
\* format: its Name is its full name without the last component, which is
\* the full name of the message it is declared in.
C10_NameDropsLastComponent ==
    ExtensionEmitted =>
        /\ Len(ItemsOfKind(g, "Name")) = 1
        /\ EmittedName =
            IF /\ extension.ParentMessage # ""
               /\ BaseName(extension.FullName) = MessageSetExtensionName
               /\ extension.ExtendedType.MessageSetWireFormat
            THEN Quote(String(Parent(extension.FullName)))
            ELSE Quote(String(extension.FullName))

\* message_set_extension declared in message p.Outer and extending the
\* message-set message p.MessageSet.
C10_Witness ==
    /\ ExtensionEmitted
    /\ extension.ParentMessage = "Outer"
    /\ extension.ExtendedType.GoIdent = "MessageSet"
    /\ String(extension.FullName) = "p.Outer.message_set_extension"
    /\ EmittedName = "\"p.Outer\""

(***************************************************************************)
(* Claims about GenerateFile (checked under Spec).                         *)
(***************************************************************************)
InitFunctionEmitted == pc \in {"descriptor", "done"}

\* The messages of a file in declaration order, depth first.
RECURSIVE DeclarationOrder(_)
DeclarationOrder(messages) ==
    IF messages = <<>> THEN <<>>
    ELSE <<Head(messages)>> \o DeclarationOrder(Head(messages).Messages)
         \o DeclarationOrder(Tail(messages))

\* Every enum of the file: the file's own and those of all its messages.
EnumsOfFile ==
    Range(file.Enums)
    \cup UNION {Range(m.Enums) : m \in Range(DeclarationOrder(file.Messages))}

\* The registration calls of g, each as <<call, what it registers>>; the
\* RegisterMessageSetType that belongs to a RegisterExtension is left out.
Registrations ==
    LET calls == SelectSeq(g, LAMBDA it :
                    it.kind \in {"RegisterEnum", "RegisterType", "RegisterMapType", "RegisterExtension"})
    IN  [i \in 1..Len(calls) |->
            <<calls[i].kind,
              IF calls[i].kind \in {"RegisterType", "RegisterMapType"} THEN calls[i].text ELSE calls[i].name>>]

\* The map fields of a message, by non-decreasing full name of the entry type.
MapFieldsByEntryName(m) ==
    LET fs == SelectSeq(m.Fields, IsMap)
        p  == CHOOSE q \in [1..Len(fs) -> 1..Len(fs)] :
                /\ \A i, j \in 1..Len(fs) : i # j => q[i] # q[j]
                /\ \A i \in 1..(Len(fs) - 1) :
                       ~StringLess(fs[q[i + 1]].MessageType.FullName, fs[q[i]].MessageType.FullName)
    IN  [i \in 1..Len(fs) |-> fs[p[i]]]

ExpectedExtensionRegistrations(extensions) ==
    [i \in 1..Len(extensions) |->
        <<"RegisterExtension",
          "E_" \o (IF extensions[i].ParentMessage # "" THEN extensions[i].ParentMessage \o "_" ELSE "")
               \o extensions[i].GoName>>]

ExpectedMessageRegistrations(m) ==
    ExpectedExtensionRegistrations(m.Extensions)
    \o <<<<"RegisterType", Quote(String(m.FullName))>>>>
    \o [i \in 1..Len(MapFieldsByEntryName(m)) |->
            <<"RegisterMapType", Quote(String(MapFieldsByEntryName(m)[i].MessageType.FullName))>>]

\* C5: the init block registers first every enum of the file; then, for each
\* message that is no map entry, in declaration (depth-first) order, its
\* nested extensions, then the message under its full name, then one map type
\* per map field by non-decreasing full name of the entry type; and last the
\* file-level extensions. No enum is registered after a message, no
\* file-level extension before one.
C5_RegistrationOrder ==
    InitFunctionEmitted =>
        LET regs     == Registrations
            nEnums   == Cardinality(EnumsOfFile)
            messages == SelectSeq(DeclarationOrder(file.Messages), LAMBDA m : ~m.IsMapEntry)
            rest     == Concat([i \in 1..Len(messages) |-> ExpectedMessageRegistrations(messages[i])])
                        \o ExpectedExtensionRegistrations(file.Extensions)
            fileExts == Range(ExpectedExtensionRegistrations(file.Extensions))
        IN  /\ Len(regs) = nEnums + Len(rest)
            /\ {regs[i] : i \in 1..nEnums} = {<<"RegisterEnum", e.GoIdent>> : e \in EnumsOfFile}
            /\ SubSeq(regs, nEnums + 1, Len(regs)) = rest
            /\ \A i, j \in 1..Len(regs) :
                    (i < j /\ regs[i][1] = "RegisterType") => regs[j][1] # "RegisterEnum"
            /\ \A i, j \in 1..Len(regs) :
                    (i < j /\ regs[i] \in fileExts) => regs[j][1] # "RegisterType"
            /\ \A i \in 1..Len(g) :
                    g[i].kind = "RegisterMessageSetType" =>
                        g[i - 1].kind = "RegisterExtension" /\ g[i - 1].name = g[i].name

\* A file with an enum, an extension and the message M1 { BEntry, AEntry,
\* Inner }: M1's map types are registered A before B, Inner's extension
\* before Inner, the file's extension last.
C5_Witness ==
    /\ InitFunctionEmitted
    /\ Registrations =
        <<<<"RegisterEnum", "Top">>, <<"RegisterEnum", "M1_E">>, <<"RegisterEnum", "M1_Inner_E">>,
          <<"RegisterType", "\"p.M1\"">>,
          <<"RegisterMapType", "\"p.M1.AEntry\"">>, <<"RegisterMapType", "\"p.M1.BEntry\"">>,
          <<"RegisterExtension", "E_M1_Inner_MessageSetExtension">>,
          <<"RegisterType", "\"p.M1.Inner\"">>,
          <<"RegisterExtension", "E_Ext">>>>

(***************************************************************************)
(* Claims about the descriptor block (checked under Spec).                 *)
(***************************************************************************)
GenerateFileDone == pc = "done" /\ file # NoFile

\* The positions in g of the items of the descriptor-embedding block.
RegisterFileAt == {i \in 1..Len(g) : g[i].kind = "RegisterFile"}

DescriptorVarAt == {i \in 1..Len(g) : g[i].kind = "var" /\ g[i].name = descriptorVar(file)}

\* C11: when serializing the file's descriptor fails, genFileDescriptor
\* reports the error to the error sink and prints neither the RegisterFile
\* init nor the fileDescriptor_<hash> variable; when it succeeds, no error is
\* reported and both are printed, the RegisterFile call before the variable.
\* Nothing of the block is printed before genFileDescriptor runs.
C11_DescriptorOrError ==
    /\ ~GenerateFileDone => RegisterFileAt = {} /\ DescriptorVarAt = {} /\ errs = <<>>
    /\ GenerateFileDone /\ ~file.ProtoMarshals =>
            /\ errs = <<"proto.Marshal">>
            /\ RegisterFileAt = {}
            /\ DescriptorVarAt = {}
    /\ GenerateFileDone /\ file.ProtoMarshals =>
            /\ errs = <<>>
            /\ Cardinality(RegisterFileAt) = 1
            /\ Cardinality(DescriptorVarAt) = 1
            /\ \A i \in RegisterFileAt : \A j \in DescriptorVarAt :
                    /\ i < j
                    /\ g[i].name = descriptorVar(file)
                    /\ g[i].text = Quote(file.Path)

\* A file whose descriptor does not serialize, after a non-empty output.
C11_Witness ==
    /\ GenerateFileDone
    /\ ~file.ProtoMarshals
    /\ errs # <<>>
    /\ Len(allMessages) > 0

(***************************************************************************)
(* Claims about the order of the declarations in g (checked under Spec).   *)
(***************************************************************************)
ItemsAt(kinds) == {i \in 1..Len(g) : g[i].kind \in kinds}

ImportAt == ItemsAt({"import", "alias", "alias_const"})

EnumDeclAt == ItemsAt({"enum"})

MessageDeclAt == ItemsAt({"struct"})

ExtensionDescAt == ItemsAt({"extension"})

InitAt == ItemsAt({"init"})

Before(A, B) == \A a \in A : \A b \in B : a < b

\* The names of the descriptors of the extensions declared at file level.
FileExtensionVars == {"E_" \o e.GoName : e \in Range(file.Extensions)}

FileExtensionDescAt == {x \in ExtensionDescAt : g[x].name \in FileExtensionVars}

NestedExtensionDescAt == ExtensionDescAt \ FileExtensionDescAt

\* The message declaration that most closely precedes position x.
DeclBefore(x) == CHOOSE y \in MessageDeclAt : y < x /\ \A z \in MessageDeclAt : z < x => z <= y

\* C12 as stated: imports, then enums, then messages, then extensions, then
\* the init block, then the descriptor blob: every enum declaration precedes
\* every message declaration, every extension descriptor follows all message
\* declarations, and the init block and the descriptor blob follow all
\* extension descriptors, in that order.
C12_ExtensionsAfterAllMessages ==
    /\ Before(ImportAt, EnumDeclAt)
    /\ Before(EnumDeclAt, MessageDeclAt)
    /\ Before(MessageDeclAt, ExtensionDescAt)
    /\ Before(ExtensionDescAt, InitAt)
    /\ Before(InitAt, RegisterFileAt)

\* C12 amended: the same sequence, where "extensions" are the extensions
\* declared at file level. The descriptor of an extension nested in a message
\* is printed inside that message's declaration block, after the message's
\* own declaration and before the declaration of any message that follows.
C12_EmitterSequence ==
    /\ Before(ImportAt, EnumDeclAt)
    /\ Before(EnumDeclAt, MessageDeclAt)
    /\ Before(MessageDeclAt, FileExtensionDescAt)
    /\ Before(NestedExtensionDescAt, FileExtensionDescAt)
    /\ Before(ExtensionDescAt, InitAt)
    /\ Before(InitAt, RegisterFileAt)
    /\ \A x \in NestedExtensionDescAt :
            /\ \E y \in MessageDeclAt : y < x
            /\ \E m \in Range(allMessages) :
                    /\ g[DeclBefore(x)].name = m.GoIdent
                    /\ \E e \in Range(m.Extensions) :
                            g[x].name = "E_" \o m.GoIdent \o "_" \o e.GoName
    /\ InitFunctionEmitted =>
            /\ Cardinality(EnumDeclAt) = Len(allEnums)
            /\ Cardinality(MessageDeclAt) = Len(SelectSeq(allMessages, LAMBDA m : ~m.IsMapEntry))
            /\ Cardinality(ExtensionDescAt) = Len(allExtensions)
            /\ Cardinality(InitAt) =
                    (IF allEnums = <<>> /\ allMessages = <<>> /\ allExtensions = <<>> THEN 0 ELSE 1)

\* A finished file with an import, a file-level extension and a message with
\* a nested extension that is followed by another message.
C12_Witness ==
    /\ GenerateFileDone
    /\ ImportAt # {}
    /\ RegisterFileAt # {}
    /\ FileExtensionDescAt # {}
    /\ \E x \in NestedExtensionDescAt : \E y \in MessageDeclAt : x < y

(***************************************************************************)
(* Claims about map entries (checked under Spec).                          *)
(***************************************************************************)
MessagesOfFile == DeclarationOrder(file.Messages)

MapEntriesOfFile == {m \in Range(MessagesOfFile) : m.IsMapEntry}

EmittedMessagesOfFile == {m \in Range(MessagesOfFile) : ~m.IsMapEntry}

\* The number of items of g that satisfy P.
Count(P(_)) == Cardinality({i \in 1..Len(g) : P(g[i])})

RECURSIVE Sum(_)
Sum(ns) == IF ns = <<>> THEN 0 ELSE Head(ns) + Sum(Tail(ns))

\* map[K]V from the types of the entry's key and value fields.
SynthesizedMapType(f) ==
    "map[" \o fieldGoType(f.MessageType.Fields[1]).goType \o "]"
           \o fieldGoType(f.MessageType.Fields[2]).goType

\* C13: a map-entry message is never emitted: no type declaration, no
\* member, accessor or default holder of its key and value fields, and no
\* RegisterType call under its name; and each map field of an emitted message
\* has exactly one RegisterMapType call in the init block, which names the
\* field's map type and the full name of the map-entry message.
C13_MapEntriesNotEmitted ==
    InitFunctionEmitted =>
        /\ \A e \in MapEntriesOfFile :
                /\ Count(LAMBDA it : it.kind = "struct" /\ it.name = e.GoIdent) = 0
                /\ Count(LAMBDA it : it.kind = "RegisterType"
                                        /\ (it.name = e.GoIdent \/ it.text = Quote(String(e.FullName)))) = 0
                /\ \A k \in 1..Len(e.Fields) :
                        /\ Count(LAMBDA it : it.kind = "getter" /\ it.name = "Get" \o e.Fields[k].GoName) = 0
                        /\ Count(LAMBDA it : it.kind = "field" /\ it.name = e.Fields[k].GoName) = 0
                        /\ Count(LAMBDA it : it.kind = "default"
                                        /\ it.name = "Default_" \o e.GoIdent \o "_" \o e.Fields[k].GoName) = 0
        /\ Count(LAMBDA it : it.kind = "struct") = Cardinality(EmittedMessagesOfFile)
        /\ Count(LAMBDA it : it.kind = "RegisterType") = Cardinality(EmittedMessagesOfFile)
        /\ Count(LAMBDA it : it.kind = "getter") =
                Sum([i \in 1..Len(MessagesOfFile) |->
                        IF MessagesOfFile[i].IsMapEntry THEN 0 ELSE Len(MessagesOfFile[i].Fields)])
        /\ \A m \in EmittedMessagesOfFile : \A k \in 1..Len(m.Fields) :
                IsMap(m.Fields[k]) =>
                    /\ Count(LAMBDA it : it.kind = "RegisterMapType"
                                /\ it.text = Quote(String(m.Fields[k].MessageType.FullName))) = 1
                    /\ Count(LAMBDA it : it.kind = "RegisterMapType"
                                /\ it.text = Quote(String(m.Fields[k].MessageType.FullName))
                                /\ it.type = SynthesizedMapType(m.Fields[k])) = 1
        /\ Count(LAMBDA it : it.kind = "RegisterMapType") =
                Sum([i \in 1..Len(MessagesOfFile) |->
                        IF MessagesOfFile[i].IsMapEntry THEN 0
                        ELSE Len(SelectSeq(MessagesOfFile[i].Fields, IsMap))])

\* A file with two map entries nested in one message, after the init block.
C13_Witness ==
    /\ InitFunctionEmitted
    /\ Cardinality(MapEntriesOfFile) >= 2
    /\ Count(LAMBDA it : it.kind = "RegisterMapType" /\ it.type = "map[string]int32") >= 2

(***************************************************************************)
(* Claims about the members of the struct (checked under SpecEmit).        *)
(***************************************************************************)
\* The members of the struct that come from the schema, each as
\* <<what it is, its name>>, in the order they are printed.
SchemaMembers ==
    LET ms == SelectSeq(g, LAMBDA it : it.kind \in {"field", "oneof_field"})
    IN  [i \in 1..Len(ms) |-> <<ms[i].kind, ms[i].name>>]

\* The field at position i is the first declared member of its oneof.
OpensOneof(fields, i) ==
    /\ fields[i].OneofType # ""
    /\ \A j \in 1..(i - 1) : fields[j].OneofType # fields[i].OneofType

OneofGoName(m, name) == (CHOOSE o \in Range(m.Oneofs) : o.Name = name).GoName

ExpectedMembers(m) ==
    Concat([i \in 1..Len(m.Fields) |->
                IF m.Fields[i].OneofType = "" THEN <<<<"field", m.Fields[i].GoName>>>>
                ELSE IF OpensOneof(m.Fields, i)
                THEN <<<<"oneof_field", OneofGoName(m, m.Fields[i].OneofType)>>>>
                ELSE <<>>])

ItemCount(kind, name) == Cardinality({i \in 1..Len(g) : g[i].kind = kind /\ g[i].name = name})

\* C14: the schema-derived members of an emitted message's struct are, in
\* the declaration order of the fields, one member per field outside a oneof
\* and one member per oneof at the position of the oneof's first field; a
\* field of a oneof has no member of its own and no oneof has two; all
\* members lie between the type's opening and its XXX_ members; and the
\* interface and the wrapper types of a oneof are generated once per oneof,
\* one wrapper per member field.
C14_StructMembers ==
    MessageEmitted =>
        /\ SchemaMembers = ExpectedMembers(message)
        /\ \A i, j, k \in 1..Len(g) :
                (g[i].kind = "struct" /\ g[j].kind \in {"field", "oneof_field"} /\ g[k].kind = "xxx")
                    => i < j /\ j < k
        /\ \A o \in Range(message.Oneofs) :
                /\ ItemCount("oneof_field", o.GoName) = 1
                /\ ItemCount("oneof_interface", "is" \o message.GoIdent \o "_" \o o.GoName) = 1
        /\ \A f \in Range(message.Fields) :
                /\ ItemCount("field", f.GoName) = (IF f.OneofType = "" THEN 1 ELSE 0)
                /\ ItemCount("oneof_wrapper", message.GoIdent \o "_" \o f.GoName)
                        = (IF f.OneofType = "" THEN 0 ELSE 1)
        /\ Len(ItemsOfKind(g, "oneof_field")) = Len(message.Oneofs)
        /\ Len(ItemsOfKind(g, "oneof_interface")) = Len(message.Oneofs)

\* A message whose two fields are members of the same oneof: one member.
C14_Witness ==
    /\ MessageEmitted
    /\ Len(message.Fields) = 2
    /\ message.Fields[1].OneofType = "kind"
    /\ message.Fields[2].OneofType = "kind"
    /\ SchemaMembers = <<<<"oneof_field", "Kind">>>>
    /\ Len(ItemsOfKind(g, "oneof_wrapper")) = 2

(***************************************************************************)
(* Claims about the flat lists (checked under Spec).                       *)
(***************************************************************************)
Walked == pc # "GenerateFile" /\ file # NoFile

\* The messages declared inside m, at any depth.
RECURSIVE Descendants(_)
Descendants(m) ==
    Range(m.Messages) \cup UNION {Descendants(c) : c \in Range(m.Messages)}

AllMessagesOfFile == Range(file.Messages) \cup UNION {Descendants(m) : m \in Range(file.Messages)}

PosOf(m) == CHOOSE i \in 1..Len(allMessages) : allMessages[i] = m

NoRepeats(list) == \A i, j \in 1..Len(list) : i # j => list[i] # list[j]

InDeclarationOrder(siblings) ==
    \A i, j \in 1..Len(siblings) : i < j => PosOf(siblings[i]) < PosOf(siblings[j])

\* C15: after the walk, allMessages holds every message of the file once, a
\* message before the messages nested in it, these directly after it and
\* before its next sibling, siblings in declaration order; allEnums is the
\* file-level enums followed by each message's enums in the order of
\* allMessages; allExtensions is each message's nested extensions in that
\* order followed by the file-level extensions; and no list holds an entity
\* twice.
C15_FlatLists ==
    Walked =>
        /\ Range(allMessages) = AllMessagesOfFile
        /\ NoRepeats(allMessages)
        /\ InDeclarationOrder(file.Messages)
        /\ \A m \in AllMessagesOfFile :
                /\ InDeclarationOrder(m.Messages)
                /\ {PosOf(d) : d \in Descendants(m)}
                        = (PosOf(m) + 1)..(PosOf(m) + Cardinality(Descendants(m)))
        /\ allEnums = file.Enums \o Concat([i \in 1..Len(allMessages) |-> allMessages[i].Enums])
        /\ allExtensions = Concat([i \in 1..Len(allMessages) |-> allMessages[i].Extensions])
                            \o file.Extensions
        /\ NoRepeats(allEnums)
        /\ NoRepeats(allExtensions)
        /\ Range(allEnums) = EnumsOfFile
        /\ Range(allExtensions) =
                Range(file.Extensions) \cup UNION {Range(m.Extensions) : m \in AllMessagesOfFile}

\* A file with an enum and an extension of its own whose first message nests
\* a message with an enum and an extension and is followed by a second one.
C15_Witness ==
    /\ Walked
    /\ Len(file.Messages) >= 2
    /\ Len(file.Enums) > 0
    /\ Len(file.Extensions) > 0
    /\ Len(allMessages) >= 3
    /\ allMessages[2] \in Range(file.Messages[1].Messages)
    /\ allMessages[2].Extensions # <<>>
    /\ allEnums[1] = file.Enums[1]
    /\ allExtensions[1] = allMessages[2].Extensions[1]
    /\ allExtensions[Len(allExtensions)] = file.Extensions[1]

(***************************************************************************)
(* Claims about the getters (checked under SpecEmit).                      *)
(***************************************************************************)
GetterOf(f) == CHOOSE it \in Range(g) : it.kind = "getter" /\ it.name = "Get" \o f.GoName

ReceiverGuard == "m != nil"

FieldGuard(f) == "m != nil && m." \o f.GoName \o " != nil"

\* The stored field is a pointer: not proto3, not repeated, and of a kind
\* other than bytes, message and group.
StoredAsPointer(f) ==
    /\ f.Syntax # "proto3"
    /\ f.Cardinality # "repeated"
    /\ f.Kind \notin {"bytes", "message", "group"}

\* C16: the getter of a field outside a oneof dereferences the stored field
\* exactly when the field is stored as a pointer, and then its guard also
\* tests that the field is non-nil; the guard tests the receiver alone
\* exactly when the syntax is proto3 or the value returned when unset is nil,
\* and then the field is returned without dereference.
C16_GetterDereference ==
    MessageEmitted =>
        \A f \in Range(message.Fields) :
            f.OneofType = "" =>
                /\ Cardinality({i \in 1..Len(g) : g[i].kind = "getter" /\ g[i].name = "Get" \o f.GoName}) = 1
                /\ GetterOf(f).flag = StoredAsPointer(f)
                /\ GetterOf(f).text \in {ReceiverGuard, FieldGuard(f)}
                /\ GetterOf(f).text = ReceiverGuard
                        <=> (f.Syntax = "proto3" \/ GetterOf(f).extra = "nil")
                /\ GetterOf(f).flag => GetterOf(f).text = FieldGuard(f)
                /\ GetterOf(f).text = ReceiverGuard => ~GetterOf(f).flag

\* A message with a dereferencing getter next to one guarded by the receiver
\* alone for a nil unset value.
C16_Witness ==
    /\ MessageEmitted
    /\ Len(message.Fields) = 2
    /\ message.Fields[1].OneofType = ""
    /\ message.Fields[2].OneofType = ""
    /\ GetterOf(message.Fields[1]).flag
    /\ GetterOf(message.Fields[1]).text = FieldGuard(message.Fields[1])
    /\ message.Fields[2].Syntax = "proto2"
    /\ GetterOf(message.Fields[2]).text = ReceiverGuard
    /\ GetterOf(message.Fields[2]).extra = "nil"
    /\ ~GetterOf(message.Fields[2]).flag

====
